---- MODULE Spec2Model ----
(***************************************************************************)
(* Model of BotGateReporter (src/src/index.ts, revision 1.2.0, lines       *)
(* 374-891): the adaptive reporting core.  One reporter object, the        *)
(* Discord client it is started with, the Node timers it installs and the  *)
(* asynchronous calls it has in flight.                                    *)
(***************************************************************************)
EXTENDS Integers, FiniteSets, Sequences, TLC

(***************************************************************************)
(* Bounds of the model.                                                    *)
(***************************************************************************)
MaxTasks == 2
MaxTimers == 3
MaxFailed == 1
MaxListeners == 2
MaxWorkers == 3
MaxGuilds == 2
MaxFleet == 4

(***************************************************************************)
(* Program constants.                                                      *)
(***************************************************************************)
Null == 0
NoShard == -1
RetryAttempts == 3
RetryDelay == 5000
DefaultMinutes == 30
MsPerMinute == 60000
HeartbeatMinutes == 5
DefaultInterval == DefaultMinutes * MsPerMinute
HeartbeatPeriod == HeartbeatMinutes * MsPerMinute

(***************************************************************************)
(* JSON values of a response body, as tagged records.  A number is its     *)
(* integer part n plus a flag telling whether a fractional part follows.   *)
(***************************************************************************)
Undef == [t |-> "undef"]
Str(s) == [t |-> "str", s |-> s]
Num(n) == [t |-> "num", n |-> n, frac |-> FALSE]
Frac(n) == [t |-> "num", n |-> n, frac |-> TRUE]
Obj(name, tier, uim, updates, capabilities) ==
    [t |-> "obj", name |-> name, tier |-> tier, updateIntervalMinutes |-> uim,
     updates |-> updates, capabilities |-> capabilities]
Limits(uim) == Obj(Undef, Undef, uim, Undef, Undef)

\* JavaScript truthiness of a JSON value
Truthy(v) ==
    CASE v.t = "undef" -> FALSE
      [] v.t = "str" -> v.s # ""
      [] v.t = "num" -> v.n # 0 \/ v.frac
      [] v.t = "null" -> FALSE
      [] OTHER -> TRUE

\* property access v.f (v?.f): undefined on anything but an object
Field(v, f) == IF v.t = "obj" THEN v[f] ELSE Undef

\* a || b
Or(a, b) == IF Truthy(a) THEN a ELSE b

\* faulty variant: no two values are the same
StrictNotEqualAlways(a, b) == TRUE

\* a !== b: objects compare by reference, and a parsed body is always new
StrictNotEqual(a, b) == IF a.t = "obj" THEN TRUE ELSE a # b

\* The number NaN, as an integer no other number of the model takes.  NaN is
\* what parseInt gives for a text that does not start with a number.
NaN == -2147483647

\* a * b and a !== b on numbers: NaN times anything is NaN, and NaN differs from
\* every number, itself included
Times(a, b) == IF a = NaN \/ b = NaN THEN NaN ELSE a * b
NumberNotEqual(a, b) == a = NaN \/ b = NaN \/ a # b

\* parseInt of a text: the integer its leading digits spell, or NaN
ParseInt(s) ==
    CASE s = "10" -> 10
      [] s = "30" -> 30
      [] OTHER -> NaN

\* parseInt of the template string `${v} minutes` with " minutes" removed:
\* for a number its integer part (the digits before the point, "-0" giving
\* 0), for a text what parseInt finds at its start, for an object
\* ("[object Object]") NaN
ParseIntMinutes(v) ==
    CASE v.t = "num" -> v.n
      [] v.t = "str" -> ParseInt(v.s)
      [] OTHER -> NaN

(***************************************************************************)
(* Payloads and responses the remote platform may answer with.             *)
(***************************************************************************)
TierNested(name, uim) == Obj(Undef, Obj(Str(name), Undef, uim, Undef, Undef), Undef, Undef, Undef)
TierRoot(name, uim) == Obj(Undef, Str(name), uim, Undef, Undef)
TierUpdates(name, uim) == Obj(Undef, Str(name), Undef, Limits(uim), Undef)
TierFields(name, uim) == Obj(Str(name), Undef, uim, Undef, Undef)
BotProfile(name) == Obj(Str(name), Undef, Undef, Undef, Undef)
NoTierPayload == Obj(Undef, Undef, Undef, Limits(Num(10)), Undef)

\* the payloads the platform answers with in a run of the model
Payloads ==
    { TierNested("free", Num(30)),
      TierNested("business", Num(10)),
      TierRoot("business", Num(30)) }

Ok(success, data) == [kind |-> "ok", success |-> success, data |-> data, status |-> 200]
Err(status) == [kind |-> "err", success |-> FALSE, data |-> Undef, status |-> status]
NoResp == [kind |-> "none", success |-> FALSE, data |-> Undef, status |-> 0]

\* what a GET answers with, and what a POST answers with (status 0: no answer)
GetResponses == {Ok(TRUE, d) : d \in Payloads} \cup {Ok(FALSE, Undef), Err(500)}
PostResponses == GetResponses \cup {Err(0), Err(403), Err(429)}

VARIABLES
    client,               \* this.client is set
    isRunning,            \* this.isRunning
    statsIntervalId,      \* this.statsIntervalId (Null or a timer id)
    heartbeatIntervalId,  \* this.heartbeatIntervalId
    currentTier,          \* this.currentTier (a JSON value)
    updateInterval,       \* this.config.updateInterval, ms
    failedAttempts,       \* this.failedAttempts
    timers,               \* Node's live interval timers: installed, not cleared
    timerSeq,             \* the highest timer handle in use
    tasks,                \* asynchronous calls in flight
    clientReady,          \* client.isReady()
    shard,                \* client.shard?.ids[0], NoShard without sharding
    readyListeners,       \* pending client.once("ready") callbacks
    stopSinceStart,       \* history: stop() was called after the last start()
    stopSinceBusiness,    \* history: stop() was called while the stored tier was
                          \* "business", and the tier has not changed since
    ev,                   \* history: the last operation and its input
    phase,                \* "new" before the constructor runs, then "constructed",
                          \* or "failed" when the constructor threw
    config,               \* the configuration the constructor is given (this.config)
    webhookServer,        \* this.webhookServer is bound
    reg,                  \* the setupAutoWebhook call in flight
    last                  \* history: the last call on the reporter's surface, its
                          \* outcome and what it emitted

hostVars == <<phase, config, webhookServer, reg, last>>

vars == <<client, isRunning, statsIntervalId, heartbeatIntervalId, currentTier,
          updateInterval, failedAttempts, timers, timerSeq, tasks, clientReady,
          shard, readyListeners, stopSinceStart, stopSinceBusiness, ev,
          phase, config, webhookServer, reg, last>>

(***************************************************************************)
(* Asynchronous calls in flight.  A task is one call chain suspended at an  *)
(* await: pc says which one.                                               *)
(*   verify0  onReady awaits its initial verifyApiKey          (line 715)  *)
(*   collect  sendStats awaits collectStats' broadcastEval     (line 775)  *)
(*   post     postWithRetry awaits axios.post                  (line 796)  *)
(*   delay    postWithRetry awaits the retry delay             (line 827)  *)
(*   verify   postWithRetry awaits verifyApiKey after 403/429  (line 816)  *)
(*   done     the call has returned or thrown (out says how)               *)
(* tasks is the sequence of the calls in flight, oldest first.             *)
(* origin is the caller: "onReady" (the start sequence), "send" (sendStats  *)
(* called by the user or by the stats timer), "heartbeat" (sendHeartbeat). *)
(* The counters record what this one call has done so far.                 *)
(***************************************************************************)
FreeTask ==
    [pc |-> "free", origin |-> "none", url |-> "none", attempt |-> 0, posts |-> 0,
     transients |-> 0, delays |-> 0, waited |-> 0, verifies |-> 0, incs |-> 0,
     out |-> "none"]

RemoveAt(seq, i) == SubSeq(seq, 1, i - 1) \o SubSeq(seq, i + 1, Len(seq))

\* The calls in flight are unordered: at the end of a step the sequence is put
\* in a fixed order, so that states differing only in that order are one state.
PcIx(pc) ==
    CASE pc = "verify0" -> 1 [] pc = "collect" -> 2 [] pc = "post" -> 3
      [] pc = "delay" -> 4 [] pc = "verify" -> 5 [] OTHER -> 0
OriginIx(o) ==
    CASE o = "onReady" -> 1 [] o = "send" -> 2 [] o = "heartbeat" -> 3 [] OTHER -> 0
TaskKey(t) == OriginIx(t.origin) * 100 + PcIx(t.pc) * 10 + t.attempt
RECURSIVE InsertTask(_, _)
InsertTask(seq, t) ==
    IF seq = <<>> THEN <<t>>
    ELSE IF TaskKey(t) <= TaskKey(Head(seq)) THEN <<t>> \o seq
         ELSE <<Head(seq)>> \o InsertTask(Tail(seq), t)
RECURSIVE SortTasks(_)
SortTasks(seq) == IF seq = <<>> THEN <<>> ELSE InsertTask(SortTasks(Tail(seq)), Head(seq))

\* the state the code reads and writes, as one record
World ==
    [isRunning |-> isRunning, statsIntervalId |-> statsIntervalId,
     heartbeatIntervalId |-> heartbeatIntervalId, currentTier |-> currentTier,
     updateInterval |-> updateInterval, failedAttempts |-> failedAttempts,
     timers |-> timers, timerSeq |-> timerSeq, tasks |-> tasks, ok |-> TRUE]

\* a new call chain starts and suspends at its first await
Spawn(w, t) ==
    IF Len(w.tasks) >= MaxTasks
    THEN [w EXCEPT !.ok = FALSE]
    ELSE [w EXCEPT !.tasks = Append(@, t)]

\* setInterval(callback, period): a new live timer; its handle is the new
\* value of timerSeq
setInterval(w, kind, period) ==
    [w EXCEPT !.timerSeq = @ + 1,
              !.timers = @ \cup {[id |-> w.timerSeq + 1, kind |-> kind, period |-> period]}]

clearInterval(w, id) == [w EXCEPT !.timers = {t \in @ : t.id # id}]

\* postWithRetry(url, data) up to its first await: the first POST is issued
postWithRetryCall(origin, url) ==
    [FreeTask EXCEPT !.pc = "post", !.origin = origin, !.url = url, !.attempt = 1,
                     !.posts = 1]

sendHeartbeat(w) == Spawn(w, postWithRetryCall("heartbeat", "heartbeat"))

\* faulty variant: the previous stats timer is not cleared before the new one
setupAutoUpdateLeaky(w) ==
    LET w2 == setInterval(w, "stats", w.updateInterval)
    IN [w2 EXCEPT !.statsIntervalId = w2.timerSeq]

setupAutoUpdate(w) ==
    LET w1 == IF w.statsIntervalId # Null THEN clearInterval(w, w.statsIntervalId) ELSE w
        w2 == setInterval(w1, "stats", w1.updateInterval)
    IN [w2 EXCEPT !.statsIntervalId = w2.timerSeq]

\* faulty variant: a tier other than "business" does not stop the heartbeat
manageHeartbeatNeverStops(w) ==
    IF w.currentTier = Str("business") /\ w.heartbeatIntervalId = Null
    THEN LET w1 == sendHeartbeat(w)
             w2 == setInterval(w1, "heartbeat", HeartbeatPeriod)
         IN [w2 EXCEPT !.heartbeatIntervalId = w2.timerSeq]
    ELSE w

\* faulty variant: the timer is armed without the immediate first send
manageHeartbeatNoFirstSend(w) ==
    IF w.currentTier = Str("business")
    THEN IF w.heartbeatIntervalId # Null
         THEN w
         ELSE LET w2 == setInterval(w, "heartbeat", HeartbeatPeriod)
              IN [w2 EXCEPT !.heartbeatIntervalId = w2.timerSeq]
    ELSE IF w.heartbeatIntervalId # Null
         THEN [clearInterval(w, w.heartbeatIntervalId) EXCEPT !.heartbeatIntervalId = Null]
         ELSE w

manageHeartbeat(w) ==
    IF w.currentTier = Str("business")
    THEN IF w.heartbeatIntervalId # Null
         THEN w
         ELSE LET w1 == sendHeartbeat(w)
                  w2 == setInterval(w1, "heartbeat", HeartbeatPeriod)
              IN [w2 EXCEPT !.heartbeatIntervalId = w2.timerSeq]
    ELSE IF w.heartbeatIntervalId # Null
         THEN [clearInterval(w, w.heartbeatIntervalId) EXCEPT !.heartbeatIntervalId = Null]
         ELSE w

\* faulty variant: the interval field is updated, the running timer is not
updateIntervalFromTierNoRearm(w, intervalMinutes) ==
    [w EXCEPT !.updateInterval = Times(ParseIntMinutes(intervalMinutes), MsPerMinute)]

\* tierData.updateInterval is `${intervalMinutes} minutes`
updateIntervalFromTier(w, intervalMinutes) ==
    LET minutes == ParseIntMinutes(intervalMinutes)
        newInterval == Times(minutes, MsPerMinute)
    IN IF NumberNotEqual(w.updateInterval, newInterval)
       THEN LET w1 == [w EXCEPT !.updateInterval = newInterval]
            IN IF w1.isRunning THEN setupAutoUpdate(w1) ELSE w1
       ELSE w

TierObject(data) == Or(Field(data, "tier"), data)

\* faulty variant: only the name nested under "tier" is looked at
TierNameNestedOnly(data) == Field(Field(data, "tier"), "name")

TierName(data) ==
    LET tierObject == TierObject(data)
    IN Or(Or(Field(tierObject, "name"), Field(tierObject, "tier")), Field(data, "tier"))
IntervalMinutes(data) ==
    LET tierObject == TierObject(data)
    IN Or(Or(Field(tierObject, "updateIntervalMinutes"),
             Field(Field(data, "updates"), "updateIntervalMinutes")),
          Field(Field(data, "capabilities"), "updateIntervalMinutes"))

\* faulty variant: the declared interval is applied whether or not the tier changed
syncFromResponseIgnoringTier(w, data) ==
    IF ~Truthy(data) \/ ~Truthy(TierName(data))
    THEN w
    ELSE LET w1 == [w EXCEPT !.currentTier = TierName(data)]
             w2 == IF Truthy(IntervalMinutes(data))
                   THEN updateIntervalFromTier(w1, IntervalMinutes(data))
                   ELSE w1
         IN manageHeartbeat(w2)

syncFromResponse(w, data) ==
    IF ~Truthy(data)
    THEN w
    ELSE LET tierName == TierName(data)
             intervalMinutes == IntervalMinutes(data)
         IN IF Truthy(tierName) /\ StrictNotEqual(tierName, w.currentTier)
            THEN LET w1 == [w EXCEPT !.currentTier = tierName]
                     w2 == IF Truthy(intervalMinutes)
                           THEN updateIntervalFromTier(w1, intervalMinutes)
                           ELSE w1
                 IN manageHeartbeat(w2)
            ELSE w

\* verifyApiKey once its GET has answered with r
verifyApiKey(w, r) ==
    IF r.kind = "ok" /\ r.success /\ Truthy(Field(r.data, "tier"))
    THEN syncFromResponse(w, r.data)
    ELSE w

\* getBotInfo / getApiUsage once the GET has answered successfully with r
syncQuery(w, r) == IF r.success THEN syncFromResponse(w, r.data) ELSE w

\* faulty variant: the heartbeat timer is left running
stopStatsOnly(w) ==
    LET w1 == IF w.statsIntervalId # Null THEN clearInterval(w, w.statsIntervalId) ELSE w
    IN [w1 EXCEPT !.statsIntervalId = Null, !.isRunning = FALSE]

\* faulty variant: the calls in flight are abandoned with the timers
stopCancellingSends(w) ==
    LET w1 == IF w.statsIntervalId # Null THEN clearInterval(w, w.statsIntervalId) ELSE w
        w2 == IF w1.heartbeatIntervalId # Null
              THEN clearInterval(w1, w1.heartbeatIntervalId) ELSE w1
    IN [w2 EXCEPT !.statsIntervalId = Null, !.heartbeatIntervalId = Null,
                  !.isRunning = FALSE, !.tasks = <<>>]

stop(w) ==
    LET w1 == IF w.statsIntervalId # Null THEN clearInterval(w, w.statsIntervalId) ELSE w
        w2 == IF w1.heartbeatIntervalId # Null
              THEN clearInterval(w1, w1.heartbeatIntervalId) ELSE w1
    IN [w2 EXCEPT !.statsIntervalId = Null, !.heartbeatIntervalId = Null,
                  !.isRunning = FALSE]

\* faulty variant: only a client without sharding context is leader
isLeaderForUnsharded(s) == s = NoShard

\* the leadership decision of onReady for a client whose first shard id is s
\* (NoShard: no sharding context)
isLeaderFor(s) == s = NoShard \/ s = 0

\* the leadership decision of onReady
isLeader == isLeaderFor(shard)

\* onReady up to its first await: the leader issues the initial verifyApiKey
onReady(w) ==
    IF isLeader
    THEN Spawn(w, [FreeTask EXCEPT !.pc = "verify0", !.origin = "onReady"])
    ELSE w

\* the statements of onReady after its awaited sendStats has returned
onReadyTail(w) == IF w.statsIntervalId = Null THEN setupAutoUpdate(w) ELSE w

\* faulty variant: the readiness of the client is not tested
sendStatsUnguarded(w, i, origin) ==
    IF shard = NoShard
    THEN [w EXCEPT !.tasks[i] = postWithRetryCall(origin, "stats")]
    ELSE [w EXCEPT !.tasks[i] = [FreeTask EXCEPT !.pc = "collect", !.origin = origin,
                                                 !.url = "stats"]]

\* sendStats, the call chain kept in slot i, up to its first await: it throws when
\* the client is not ready, awaits the broadcast on a sharded client, and
\* otherwise collects locally and issues the first POST
sendStats(w, i, origin) ==
    IF ~(client /\ clientReady)
    THEN [w EXCEPT !.tasks[i] = [FreeTask EXCEPT !.pc = "done", !.origin = origin,
                                                 !.url = "stats", !.out = "threw"]]
    ELSE IF shard = NoShard
         THEN [w EXCEPT !.tasks[i] = postWithRetryCall(origin, "stats")]
         ELSE [w EXCEPT !.tasks[i] = [FreeTask EXCEPT !.pc = "collect", !.origin = origin,
                                                      !.url = "stats"]]

\* collectStats once broadcastEval has settled: a rejection propagates out of
\* sendStats, a result is summed and the first POST is issued
collectStatsSettled(w, i, resolved) ==
    IF resolved
    THEN [w EXCEPT !.tasks[i] = postWithRetryCall(w.tasks[i].origin, "stats")]
    ELSE [w EXCEPT !.tasks[i].pc = "done", !.tasks[i].out = "threw"]

\* faulty variant: the retry test is attempt <= retryAttempts
postWithRetryAnswerOneMore(w, i, r) ==
    IF r.kind = "ok"
    THEN LET w1 == IF r.success THEN syncFromResponse(w, r.data) ELSE w
         IN [w1 EXCEPT !.failedAttempts = 0,
                       !.tasks[i].pc = "done", !.tasks[i].out = "success"]
    ELSE IF r.status = 403 \/ r.status = 429
         THEN [w EXCEPT !.tasks[i].pc = "verify", !.tasks[i].verifies = @ + 1]
         ELSE IF w.tasks[i].attempt <= RetryAttempts
              THEN [w EXCEPT !.tasks[i].pc = "delay", !.tasks[i].transients = @ + 1]
              ELSE [w EXCEPT !.failedAttempts = @ + 1,
                             !.ok = @ /\ w.failedAttempts < MaxFailed,
                             !.tasks[i].transients = @ + 1,
                             !.tasks[i].incs = @ + 1,
                             !.tasks[i].pc = "done", !.tasks[i].out = "exhausted"]

\* faulty variant: only 403 ends the call; 429 is retried like any other failure
postWithRetryAnswerRetry429(w, i, r) ==
    IF r.kind = "ok"
    THEN LET w1 == IF r.success THEN syncFromResponse(w, r.data) ELSE w
         IN [w1 EXCEPT !.failedAttempts = 0,
                       !.tasks[i].pc = "done", !.tasks[i].out = "success"]
    ELSE IF r.status = 403
         THEN [w EXCEPT !.tasks[i].pc = "verify", !.tasks[i].verifies = @ + 1]
         ELSE IF w.tasks[i].attempt < RetryAttempts
              THEN [w EXCEPT !.tasks[i].pc = "delay", !.tasks[i].transients = @ + 1]
              ELSE [w EXCEPT !.failedAttempts = @ + 1,
                             !.ok = @ /\ w.failedAttempts < MaxFailed,
                             !.tasks[i].transients = @ + 1,
                             !.tasks[i].incs = @ + 1,
                             !.tasks[i].pc = "done", !.tasks[i].out = "exhausted"]

\* faulty variant: the call returns its success before the response is
\* synchronised
postWithRetryAnswerSyncAfterReturn(w, i, r) ==
    IF r.kind = "ok"
    THEN [w EXCEPT !.failedAttempts = 0,
                   !.tasks[i].pc = "done", !.tasks[i].out = "success"]
    ELSE IF r.status = 403 \/ r.status = 429
         THEN [w EXCEPT !.tasks[i].pc = "verify", !.tasks[i].verifies = @ + 1]
         ELSE IF w.tasks[i].attempt < RetryAttempts
              THEN [w EXCEPT !.tasks[i].pc = "delay", !.tasks[i].transients = @ + 1]
              ELSE [w EXCEPT !.failedAttempts = @ + 1,
                             !.ok = @ /\ w.failedAttempts < MaxFailed,
                             !.tasks[i].transients = @ + 1,
                             !.tasks[i].incs = @ + 1,
                             !.tasks[i].pc = "done", !.tasks[i].out = "exhausted"]

\* what postWithRetry returns when its last POST settled with r: the response
\* body under data on success, an error text otherwise
postWithRetryResult(r) ==
    IF r.kind = "ok"
    THEN [success |-> TRUE, data |-> [success |-> r.success, data |-> r.data], error |-> "none"]
    ELSE IF r.status = 403 \/ r.status = 429
         THEN [success |-> FALSE, data |-> Undef, error |-> "limited"]
         ELSE [success |-> FALSE, data |-> Undef, error |-> "message"]

\* faulty variant: the failure counter is reset only by a success on the first
\* attempt
postWithRetryAnswerResetFirstOnly(w, i, r) ==
    IF r.kind = "ok"
    THEN LET w1 == IF r.success THEN syncFromResponse(w, r.data) ELSE w
         IN [w1 EXCEPT !.failedAttempts = IF w.tasks[i].attempt = 1 THEN 0 ELSE @,
                       !.tasks[i].pc = "done", !.tasks[i].out = "success"]
    ELSE IF r.status = 403 \/ r.status = 429
         THEN [w EXCEPT !.tasks[i].pc = "verify", !.tasks[i].verifies = @ + 1]
         ELSE IF w.tasks[i].attempt < RetryAttempts
              THEN [w EXCEPT !.tasks[i].pc = "delay", !.tasks[i].transients = @ + 1]
              ELSE [w EXCEPT !.failedAttempts = @ + 1,
                             !.ok = @ /\ w.failedAttempts < MaxFailed,
                             !.tasks[i].transients = @ + 1,
                             !.tasks[i].incs = @ + 1,
                             !.tasks[i].pc = "done", !.tasks[i].out = "exhausted"]

\* faulty variant: an answer whose body says success: false is a failure like a
\* transient one
postWithRetryAnswerBodyFailureRetried(w, i, r) ==
    IF r.kind = "ok" /\ r.success
    THEN [syncFromResponse(w, r.data) EXCEPT !.failedAttempts = 0,
                                             !.tasks[i].pc = "done",
                                             !.tasks[i].out = "success"]
    ELSE IF r.status = 403 \/ r.status = 429
         THEN [w EXCEPT !.tasks[i].pc = "verify", !.tasks[i].verifies = @ + 1]
         ELSE IF w.tasks[i].attempt < RetryAttempts
              THEN [w EXCEPT !.tasks[i].pc = "delay", !.tasks[i].transients = @ + 1]
              ELSE [w EXCEPT !.failedAttempts = @ + 1,
                             !.ok = @ /\ w.failedAttempts < MaxFailed,
                             !.tasks[i].transients = @ + 1,
                             !.tasks[i].incs = @ + 1,
                             !.tasks[i].pc = "done", !.tasks[i].out = "exhausted"]

\* faulty variant: a call that exhausts its attempts cancels the stats timer
postWithRetryAnswerHaltOnExhaustion(w, i, r) ==
    IF r.kind = "ok"
    THEN LET w1 == IF r.success THEN syncFromResponse(w, r.data) ELSE w
         IN [w1 EXCEPT !.failedAttempts = 0,
                       !.tasks[i].pc = "done", !.tasks[i].out = "success"]
    ELSE IF r.status = 403 \/ r.status = 429
         THEN [w EXCEPT !.tasks[i].pc = "verify", !.tasks[i].verifies = @ + 1]
         ELSE IF w.tasks[i].attempt < RetryAttempts
              THEN [w EXCEPT !.tasks[i].pc = "delay", !.tasks[i].transients = @ + 1]
              ELSE [w EXCEPT !.failedAttempts = @ + 1,
                             !.ok = @ /\ w.failedAttempts < MaxFailed,
                             !.timers = {t \in @ : t.id # w.statsIntervalId},
                             !.statsIntervalId = Null,
                             !.tasks[i].transients = @ + 1,
                             !.tasks[i].incs = @ + 1,
                             !.tasks[i].pc = "done", !.tasks[i].out = "exhausted"]

\* postWithRetry of slot i once its axios.post has settled with r
postWithRetryAnswer(w, i, r) ==
    IF r.kind = "ok"
    THEN LET w1 == IF r.success THEN syncFromResponse(w, r.data) ELSE w
         IN [w1 EXCEPT !.failedAttempts = 0,
                       !.tasks[i].pc = "done", !.tasks[i].out = "success"]
    ELSE IF r.status = 403 \/ r.status = 429
         THEN [w EXCEPT !.tasks[i].pc = "verify", !.tasks[i].verifies = @ + 1]
         ELSE IF w.tasks[i].attempt < RetryAttempts
              THEN [w EXCEPT !.tasks[i].pc = "delay", !.tasks[i].transients = @ + 1]
              ELSE [w EXCEPT !.failedAttempts = @ + 1,
                             !.ok = @ /\ w.failedAttempts < MaxFailed,
                             !.tasks[i].transients = @ + 1,
                             !.tasks[i].incs = @ + 1,
                             !.tasks[i].pc = "done", !.tasks[i].out = "exhausted"]

\* postWithRetry of slot i once its retry delay has elapsed: the recursive call
postWithRetryDelayed(w, i) ==
    [w EXCEPT !.tasks[i].pc = "post", !.tasks[i].attempt = @ + 1,
              !.tasks[i].posts = @ + 1, !.tasks[i].delays = @ + 1,
              !.tasks[i].waited = @ + RetryDelay]

\* faulty variant: a rate-limited call resets the failure counter
postWithRetryVerifiedResets(w, i, r) ==
    LET w1 == verifyApiKey(w, r)
    IN [w1 EXCEPT !.failedAttempts = 0, !.tasks[i].pc = "done", !.tasks[i].out = "limited"]

\* faulty variant: after the verification the POST is tried again
postWithRetryVerifiedThenRetry(w, i, r) ==
    LET w1 == verifyApiKey(w, r)
    IN [w1 EXCEPT !.tasks[i].pc = "post", !.tasks[i].posts = @ + 1]

\* postWithRetry of slot i once the verifyApiKey of its 403/429 branch returned
postWithRetryVerified(w, i, r) ==
    LET w1 == verifyApiKey(w, r)
    IN [w1 EXCEPT !.tasks[i].pc = "done", !.tasks[i].out = "limited"]

\* the caller's continuation once the call chain of slot i has ended, and the
\* slot freed
Settle(w, i) ==
    IF w.tasks[i].pc # "done"
    THEN w
    ELSE LET w1 == IF w.tasks[i].origin = "onReady" /\ w.tasks[i].out # "threw"
                   THEN onReadyTail(w) ELSE w
         IN [w1 EXCEPT !.tasks = RemoveAt(@, i)]

\* no call chain has ended in the step
NoTask == [pc |-> "free"]

\* the call chain of slot i if it has ended in the step
Ended(w, i) ==
    IF w.tasks[i].pc = "done"
    THEN [w.tasks[i] EXCEPT !.origin = "none", !.url = "none"]
    ELSE NoTask

\* Timer handles are opaque: at the end of a step the live timers are renumbered
\* 1..k in the order they were installed, the handles with them (a handle of a
\* cleared timer becomes k+1), so that states differing only in the handles'
\* names are one state.
LiveIds(w) == {t.id : t \in w.timers}
Rank(live, id) == Cardinality({j \in live : j <= id})
Renumber(live, h) ==
    IF h = Null THEN Null
    ELSE IF h \in live THEN Rank(live, h) ELSE Cardinality(live) + 1
Dangling(live, w) ==
    \E h \in {w.statsIntervalId, w.heartbeatIntervalId} : h # Null /\ h \notin live

Commit(w) ==
    /\ w.ok
    /\ Cardinality(w.timers) <= MaxTimers
    /\ isRunning' = w.isRunning
    /\ statsIntervalId' = Renumber(LiveIds(w), w.statsIntervalId)
    /\ heartbeatIntervalId' = Renumber(LiveIds(w), w.heartbeatIntervalId)
    /\ currentTier' = w.currentTier
    /\ updateInterval' = w.updateInterval
    /\ failedAttempts' = w.failedAttempts
    /\ timers' = {[t EXCEPT !.id = Rank(LiveIds(w), t.id)] : t \in w.timers}
    /\ timerSeq' = Cardinality(w.timers) + (IF Dangling(LiveIds(w), w) THEN 1 ELSE 0)
    /\ tasks' = SortTasks(w.tasks)

\* history variables of a step that is neither start() nor stop()
History(w) ==
    /\ stopSinceStart' = stopSinceStart
    /\ stopSinceBusiness' = (stopSinceBusiness /\ w.currentTier = currentTier)

\* history of the step just taken: whether it ran syncFromResponse on a payload
\* carrying the stored tier with another interval than the current one
\* ("sameOtherInterval"), and the
\* call chain that ended in it, if one did
SyncCalled(op, r) ==
    /\ r.kind = "ok" /\ r.success
    /\ op \in {"verifyApiKey", "onReadyVerified", "limitVerified"} => Truthy(Field(r.data, "tier"))
\* what syncFromResponse reads in a payload: the tier name, whether an interval
\* is declared, and the interval in milliseconds (tabulated for the payloads
\* the server of the reporting loop answers with)
SyncReads(d) ==
    [tier |-> TierName(d),
     hasMinutes |-> Truthy(IntervalMinutes(d)),
     ms |-> Times(ParseIntMinutes(IntervalMinutes(d)), MsPerMinute)]
SyncReadsOfPayloads == [d \in Payloads |-> SyncReads(d)]
SyncReadsOf(d) == IF d \in Payloads THEN SyncReadsOfPayloads[d] ELSE SyncReads(d)
SyncClass(op, r) ==
    IF ~SyncCalled(op, r) \/ ~Truthy(r.data) \/ ~Truthy(SyncReadsOf(r.data).tier)
    THEN "none"
    ELSE IF StrictNotEqual(SyncReadsOf(r.data).tier, currentTier)
         THEN "none"
         ELSE IF SyncReadsOf(r.data).hasMinutes
                 /\ NumberNotEqual(SyncReadsOf(r.data).ms, updateInterval)
              THEN "sameOtherInterval"
              ELSE "none"
Ev(op, r, t) == [sync |-> SyncClass(op, r), task |-> t]

(***************************************************************************)
(* The reporter's surface besides the reporting loop: construction, the    *)
(* webhook listener, shard messages, auto-registration and the read-only   *)
(* queries.                                                                *)
(***************************************************************************)

\* a URL as the sequence of its parts; includes(s) finds a part
DefaultApiUrl == <<"https://", "botgate-api-987684559046.us-central1.run.app">>
LocalhostApiUrl == <<"http://", "localhost", ":3000">>
LoopbackApiUrl == <<"http://", "127.0.0.1", ":3000">>
Url(parts) == [t |-> "str", s |-> parts]
Includes(url, part) == \E k \in DOMAIN url.s : url.s[k] = part

\* the configurations a reporter is constructed with; autoConfig is FALSE for
\* config.autoConfig === false and TRUE for every other value (undefined too)
ConfigArgs ==
    [botId : {Undef, Str(""), Str("bot")},
     apiKey : {Undef, Str(""), Str("key")},
     apiUrl : {Undef, Url(LocalhostApiUrl), Url(LoopbackApiUrl)},
     enableWebhooks : BOOLEAN,
     autoConfig : BOOLEAN]

\* the configuration of the reporter of the reporting loop
LoopConfig ==
    [botId |-> Str("bot"), apiKey |-> Str("key"), apiUrl |-> Url(DefaultApiUrl),
     enableWebhooks |-> FALSE, autoConfig |-> FALSE]

\* process.env.K_SERVICE
KServices == {Undef, Str(""), Str("svc")}

\* no setupAutoWebhook call in flight
IdleReg == [pc |-> "idle"]

\* a setupAutoWebhook call about to start
NewReg ==
    [pc |-> "idle", kService |-> Undef, branches |-> {}, gets |-> 0, posts |-> 0,
     webhookUrl |-> "", failed |-> FALSE, out |-> "none"]

NoSnapshot == [serverCount |-> 0, userCount |-> 0, shardCount |-> 0]

\* no call on the surface in the step just taken
NoCall == [op |-> "none"]

\* a call on the surface: its name, its argument, how it ended ("returned" or
\* "threw"), whether the HTTP call under it failed, the "vote" events it
\* emitted, the HTTP status it answered with, the snapshot it collected and the
\* registration it ran
Call ==
    [op |-> "none", arg |-> Undef, result |-> "none", failed |-> FALSE,
     votes |-> <<>>, status |-> 0, snapshot |-> NoSnapshot, reg |-> IdleReg]

\* a step of the reporting loop: the reporter exists, and nothing of the rest
\* of the surface is touched
HostIdle ==
    /\ phase = "constructed"
    /\ last' = NoCall
    /\ UNCHANGED <<phase, config, webhookServer, reg>>

\* initWebhookServer: bind the listener unless one is bound
initWebhookServer(h) == IF h.webhookServer THEN h ELSE [h EXCEPT !.webhookServer = TRUE]

\* faulty variant: the loopback test comes before the K_SERVICE test
setupAutoWebhookCallLoopbackFirst(cfg, kService) ==
    LET r == [NewReg EXCEPT !.kService = kService]
    IN IF Includes(cfg.apiUrl, "localhost") \/ Includes(cfg.apiUrl, "127.0.0.1")
       THEN [r EXCEPT !.pc = "post", !.branches = @ \cup {"localhost"},
                      !.webhookUrl = "localhost", !.posts = 1]
       ELSE IF Truthy(kService)
            THEN [r EXCEPT !.pc = "metadata", !.branches = @ \cup {"cloudrun"}, !.gets = 1]
            ELSE [r EXCEPT !.pc = "ip", !.branches = @ \cup {"publicip"}, !.gets = 1]

\* setupAutoWebhook up to its first await: the environment is detected, and
\* the metadata GET, the public-IP GET or the registration POST is issued
setupAutoWebhookCall(cfg, kService) ==
    LET r == [NewReg EXCEPT !.kService = kService]
    IN IF Truthy(kService)
       THEN [r EXCEPT !.pc = "metadata", !.branches = @ \cup {"cloudrun"}, !.gets = 1]
       ELSE IF Includes(cfg.apiUrl, "localhost") \/ Includes(cfg.apiUrl, "127.0.0.1")
            THEN [r EXCEPT !.pc = "post", !.branches = @ \cup {"localhost"},
                           !.webhookUrl = "localhost", !.posts = 1]
            ELSE [r EXCEPT !.pc = "ip", !.branches = @ \cup {"publicip"}, !.gets = 1]

\* faulty variant: the listener is bound and registration started before the
\* configuration is validated
constructorValidatingLast(cfg, kService) ==
    LET cfg1 == [cfg EXCEPT !.apiUrl = Or(cfg.apiUrl, Url(DefaultApiUrl))]
        h1 == [phase |-> "constructed", config |-> cfg1, webhookServer |-> FALSE,
               reg |-> IdleReg]
        h2 == IF cfg.enableWebhooks THEN initWebhookServer(h1) ELSE h1
        h3 == IF cfg.autoConfig
              THEN [h2 EXCEPT !.reg = setupAutoWebhookCall(cfg1, kService)] ELSE h2
    IN IF ~Truthy(cfg.botId) \/ ~Truthy(cfg.apiKey)
       THEN [h3 EXCEPT !.phase = "failed", !.config = cfg]
       ELSE h3

\* new BotGateReporter(cfg), with process.env.K_SERVICE = kService
constructor(cfg, kService) ==
    IF ~Truthy(cfg.botId) \/ ~Truthy(cfg.apiKey)
    THEN [phase |-> "failed", config |-> cfg, webhookServer |-> FALSE, reg |-> IdleReg]
    ELSE LET cfg1 == [cfg EXCEPT !.apiUrl = Or(cfg.apiUrl, Url(DefaultApiUrl))]
             h1 == [phase |-> "constructed", config |-> cfg1, webhookServer |-> FALSE,
                    reg |-> IdleReg]
             h2 == IF cfg.enableWebhooks THEN initWebhookServer(h1) ELSE h1
         IN IF cfg.autoConfig
            THEN [h2 EXCEPT !.reg = setupAutoWebhookCall(cfg1, kService)]
            ELSE h2

(***************************************************************************)
(* The webhook listener.                                                   *)
(***************************************************************************)
JNull == [t |-> "null"]
VoteBody(details, user) == [t |-> "obj", details |-> details, user |-> user]

\* what JSON.parse gives for the bodies that parse
ParsedBodies ==
    { JNull, Num(5), VoteBody(Undef, "u1"), VoteBody(VoteBody(Undef, "u2"), "u1"),
      VoteBody(Str(""), "u1") }

\* a request body as received: it parses to a value, or it does not parse
RawBodies ==
    {[valid |-> FALSE, value |-> Undef]} \cup {[valid |-> TRUE, value |-> v] : v \in ParsedBodies}

Requests == [method : {"POST", "GET"}, url : {"/webhook", "/"}, body : RawBodies]

\* faulty variant: the body is handled before method and path are looked at
webhookHandlerAnyPath(req, listenerThrows) ==
    IF ~req.body.valid \/ req.body.value.t = "null"
    THEN [votes |-> <<>>, status |-> 400]
    ELSE [votes |-> <<Or(Field(req.body.value, "details"), req.body.value)>>,
          status |-> IF listenerThrows THEN 400 ELSE 200]

\* faulty variant: the whole body is republished, details or not
webhookHandlerWholeBody(req, listenerThrows) ==
    IF req.method = "POST" /\ req.url = "/webhook"
    THEN IF ~req.body.valid \/ req.body.value.t = "null"
         THEN [votes |-> <<>>, status |-> 400]
         ELSE [votes |-> <<req.body.value>>,
               status |-> IF listenerThrows THEN 400 ELSE 200]
    ELSE [votes |-> <<>>, status |-> 404]

\* the request listener of initWebhookServer, once the body has been read:
\* the "vote" events emitted and the status answered.  JSON.parse throws on a
\* body that does not parse, data.details throws on null, and a "vote"
\* listener that throws does so inside emit; all three end in the catch.
webhookHandler(req, listenerThrows) ==
    IF req.method = "POST" /\ req.url = "/webhook"
    THEN IF ~req.body.valid
         THEN [votes |-> <<>>, status |-> 400]
         ELSE IF req.body.value.t = "null"
              THEN [votes |-> <<>>, status |-> 400]
              ELSE [votes |-> <<Or(Field(req.body.value, "details"), req.body.value)>>,
                    status |-> IF listenerThrows THEN 400 ELSE 200]
    ELSE [votes |-> <<>>, status |-> 404]

(***************************************************************************)
(* Shard messages.                                                         *)
(***************************************************************************)
VoteMarker == Str("BOTGATE_VOTE")
Message(type, data) == [t |-> "obj", type |-> type, data |-> data]

Messages ==
    { JNull, Undef, VoteMarker,
      Message(VoteMarker, VoteBody(Undef, "u1")), Message(VoteMarker, Undef),
      Message(Str("OTHER"), VoteBody(Undef, "u1")), Message(Undef, VoteBody(Undef, "u1")) }

\* faulty variant: every message that carries data is republished
handleShardMessageAnyType(w, message) ==
    IF Truthy(message) /\ Truthy(Field(message, "data"))
    THEN [w |-> w, votes |-> <<Field(message, "data")>>]
    ELSE [w |-> w, votes |-> <<>>]

\* handleShardMessage(message): the fields afterwards and the events emitted
handleShardMessage(w, message) ==
    IF Truthy(message) /\ Field(message, "type") = VoteMarker
    THEN [w |-> w, votes |-> <<Field(message, "data")>>]
    ELSE [w |-> w, votes |-> <<>>]

(***************************************************************************)
(* Auto-registration: setupAutoWebhook after its first await.              *)
(***************************************************************************)
\* what the metadata server, the public-IP service (the body is the address,
\* or null) and the registration endpoint answer with
MetadataResponses == {Ok(TRUE, Str("987684559046")), Err(0)}
PublicIpResponses == {Ok(TRUE, Str("203.0.113.7")), Ok(TRUE, JNull), Err(0)}
RegistrationResponses == {Ok(TRUE, Undef), Ok(FALSE, Undef), Err(403), Err(0)}

\* the catch of setupAutoWebhook: the failure is logged and the call returns
setupAutoWebhookCaught(r) == [r EXCEPT !.pc = "done", !.failed = TRUE, !.out = "returned"]

\* faulty variant: a metadata failure escapes the call
setupAutoWebhookMetadataEscapes(r, resp) ==
    IF resp.kind = "ok"
    THEN [r EXCEPT !.pc = "post", !.webhookUrl = "cloudrun", !.posts = @ + 1]
    ELSE [r EXCEPT !.pc = "done", !.failed = TRUE, !.out = "threw"]

\* faulty variant: a metadata failure falls back to the public-IP lookup
setupAutoWebhookMetadataFallsBack(r, resp) ==
    IF resp.kind = "ok"
    THEN [r EXCEPT !.pc = "post", !.webhookUrl = "cloudrun", !.posts = @ + 1]
    ELSE [r EXCEPT !.pc = "ip", !.branches = @ \cup {"publicip"}, !.gets = @ + 1]

\* the metadata GET settles: the URL is built and the registration POST issued,
\* or the failure is thrown again and caught by the outer catch
setupAutoWebhookMetadata(r, resp) ==
    IF resp.kind = "ok"
    THEN [r EXCEPT !.pc = "post", !.webhookUrl = "cloudrun", !.posts = @ + 1]
    ELSE setupAutoWebhookCaught(r)

\* the public-IP GET settles (reading .ip of a null body throws)
setupAutoWebhookIp(r, resp) ==
    IF resp.kind = "ok" /\ resp.data.t # "null"
    THEN [r EXCEPT !.pc = "post", !.webhookUrl = "publicip", !.posts = @ + 1]
    ELSE setupAutoWebhookCaught(r)

\* the registration POST settles
setupAutoWebhookPosted(r, resp) ==
    IF resp.kind = "ok"
    THEN [r EXCEPT !.pc = "done", !.failed = ~resp.success, !.out = "returned"]
    ELSE setupAutoWebhookCaught(r)

(***************************************************************************)
(* The read-only queries.  Each awaits one GET without a try/catch: a      *)
(* rejected GET rejects the call.                                          *)
(***************************************************************************)
Queries == {"getBotInfo", "getBotVotes", "getBotAnalytics", "getStatsHistory", "getApiUsage"}

\* what a query may be answered with besides the payloads of the reporting
\* loop: the tier fields at the root of the payload, intervals that are zero,
\* negative, below one or no number, a bot profile (the bot's own name at the
\* root, no tier), a payload without tier
QueryPayloads ==
    { TierFields("business", Num(10)),
      TierNested("free", Num(0)),
      TierNested("business", Num(-5)),
      TierNested("free", Frac(0)),
      TierNested("business", Str("soon")),
      TierNested("free", Str("10")),
      BotProfile("MyBot"),
      NoTierPayload }
QueryResponses == GetResponses \cup {Ok(TRUE, d) : d \in QueryPayloads}

\* the fields after query q has been answered with r
query(w, q, r) ==
    IF r.kind = "ok" /\ q \in {"getBotInfo", "getApiUsage"} THEN syncQuery(w, r) ELSE w

\* how query q, answered with r, ends
queryResult(q, r) == IF r.kind = "ok" THEN "returned" ELSE "threw"


(***************************************************************************)
(* collectStats: the snapshot of a report.                                 *)
(***************************************************************************)
\* what one worker answers the broadcast with
WorkerResult(guilds, users) == [guilds |-> guilds, users |-> users]
WorkerResults == {WorkerResult(2, 5), WorkerResult(3, 1), WorkerResult(0, 10)}

\* the memberCount of a cached guild (it may be missing)
MemberCounts == {Undef, Num(5), Num(10)}

SeqsUpTo(S, lo, hi) == UNION {[1..n -> S] : n \in lo..hi}

\* the clients a snapshot is collected from: without sharding context, the
\* guilds of the local cache; with one, the broadcast results and the shard
\* count the topology reports
Topologies ==
    [sharded : {FALSE}, guilds : SeqsUpTo(MemberCounts, 0, MaxGuilds),
     results : {<<>>}, count : {0}]
    \cup
    [sharded : {TRUE}, guilds : {<<>>},
     results : SeqsUpTo(WorkerResults, 1, MaxWorkers), count : 1..MaxWorkers]

\* g.memberCount || 0
MemberCountOrZero(mc) == Or(mc, Num(0)).n

\* what the reduce callback adds for element x: res.guilds, res.users, or
\* g.memberCount || 0
Addend(field, x) == IF field = "memberCount" THEN MemberCountOrZero(x) ELSE x[field]

\* seq.reduce((acc, x) => acc + <addend of x>, acc)
RECURSIVE Reduce(_, _, _)
Reduce(field, seq, acc) ==
    IF seq = <<>> THEN acc ELSE Reduce(field, Tail(seq), acc + Addend(field, Head(seq)))

\* faulty variant: the servers are the number of answers, not their sum
collectStatsCountingAnswers(c) ==
    IF ~c.sharded
    THEN [serverCount |-> Len(c.guilds),
          userCount |-> Reduce("memberCount", c.guilds, 0),
          shardCount |-> 1]
    ELSE [serverCount |-> Len(c.results),
          userCount |-> Reduce("users", c.results, 0),
          shardCount |-> c.count]

\* collectStats on client c, once the broadcast (if any) has resolved
collectStats(c) ==
    IF ~c.sharded
    THEN [serverCount |-> Len(c.guilds),
          userCount |-> Reduce("memberCount", c.guilds, 0),
          shardCount |-> 1]
    ELSE [serverCount |-> Reduce("guilds", c.results, 0),
          userCount |-> Reduce("users", c.results, 0),
          shardCount |-> c.count]

\* the fields of a reporter just constructed
InitFields ==
    /\ client = FALSE
    /\ isRunning = FALSE
    /\ statsIntervalId = Null
    /\ heartbeatIntervalId = Null
    /\ currentTier = Str("")
    /\ updateInterval = DefaultInterval
    /\ failedAttempts = 0
    /\ timers = {}
    /\ timerSeq = 0
    /\ tasks = <<>>
    /\ clientReady = FALSE
    /\ readyListeners = 0
    /\ stopSinceStart = FALSE
    /\ stopSinceBusiness = FALSE
    /\ ev = Ev("init", NoResp, NoTask)

\* a reporter constructed without webhooks and without auto-registration, and
\* not started yet
Init ==
    /\ InitFields
    /\ shard \in {NoShard, 0, 1}
    /\ phase = "constructed"
    /\ config = LoopConfig
    /\ webhookServer = FALSE
    /\ reg = IdleReg
    /\ last = NoCall

RECURSIVE RunListeners(_, _)
RunListeners(w, n) == IF n = 0 THEN w ELSE RunListeners(onReady(w), n - 1)

\* start(client)
Start ==
    /\ ~isRunning
    /\ client' = TRUE
    /\ LET w == [World EXCEPT !.isRunning = TRUE]
       IN IF clientReady
          THEN Commit(onReady(w)) /\ readyListeners' = readyListeners
          ELSE /\ readyListeners < MaxListeners
               /\ Commit(w)
               /\ readyListeners' = readyListeners + 1
    /\ stopSinceStart' = FALSE
    /\ stopSinceBusiness' = stopSinceBusiness
    /\ ev' = Ev("start", NoResp, NoTask)
    /\ UNCHANGED <<clientReady, shard>>
    /\ HostIdle

\* stop()
Stop ==
    /\ Commit(stop(World))
    /\ stopSinceStart' = TRUE
    /\ stopSinceBusiness' = (currentTier = Str("business"))
    /\ ev' = Ev("stop", NoResp, NoTask)
    /\ UNCHANGED <<client, clientReady, shard, readyListeners>>
    /\ HostIdle

\* the host client signals readiness: every once("ready") callback runs
ClientReady ==
    /\ ~clientReady
    /\ clientReady' = TRUE
    /\ readyListeners' = 0
    /\ LET w == RunListeners(World, readyListeners)
       IN Commit(w) /\ History(w)
    /\ ev' = Ev("ready", NoResp, NoTask)
    /\ UNCHANGED <<client, shard>>
    /\ HostIdle

\* sendStats() called by the user or by the stats timer: a new call chain
StartSendStats(op, origin) ==
    /\ Len(tasks) < MaxTasks
    /\ LET i == Len(tasks) + 1
           w == sendStats(Spawn(World, FreeTask), i, origin)
       IN /\ Commit(Settle(w, i))
          /\ History(w)
          /\ ev' = Ev(op, NoResp, Ended(w, i))
    /\ UNCHANGED <<client, clientReady, shard, readyListeners>>
    /\ HostIdle

\* the user calls sendStats()
ManualSendStats == StartSendStats("sendStats", "send")

\* the stats timer fires: () => this.sendStats()
StatsTimerFire ==
    /\ \E t \in timers : t.kind = "stats"
    /\ StartSendStats("statsTimer", "send")

\* the user calls sendHeartbeat()
ManualSendHeartbeat ==
    /\ LET w == sendHeartbeat(World)
       IN Commit(w) /\ History(w)
    /\ ev' = Ev("sendHeartbeat", NoResp, NoTask)
    /\ UNCHANGED <<client, clientReady, shard, readyListeners>>
    /\ HostIdle

\* the heartbeat timer fires: () => this.sendHeartbeat()
HeartbeatTimerFire ==
    /\ \E t \in timers : t.kind = "heartbeat"
    /\ LET w == sendHeartbeat(World)
       IN Commit(w) /\ History(w)
    /\ ev' = Ev("heartbeatTimer", NoResp, NoTask)
    /\ UNCHANGED <<client, clientReady, shard, readyListeners>>
    /\ HostIdle

\* the user calls verifyApiKey(); the GET answers with r
VerifyApiKey ==
    \E r \in GetResponses :
        /\ LET w == verifyApiKey(World, r)
           IN Commit(w) /\ History(w)
        /\ ev' = Ev("verifyApiKey", r, NoTask)
        /\ UNCHANGED <<client, clientReady, shard, readyListeners>>
        /\ HostIdle

\* the user calls getBotInfo() or getApiUsage(); the GET answers with r (a
\* failed GET makes the call throw, leaving the state as it was)
SyncQuery ==
    \E r \in GetResponses :
        /\ LET w == IF r.kind = "ok" THEN syncQuery(World, r) ELSE World
           IN Commit(w) /\ History(w)
        /\ ev' = Ev("getBotInfo", r, NoTask)
        /\ UNCHANGED <<client, clientReady, shard, readyListeners>>
        /\ HostIdle

\* onReady's initial verifyApiKey answers with r; onReady goes on to sendStats
OnReadyVerified ==
    \E i \in DOMAIN tasks, r \in GetResponses :
        /\ tasks[i].pc = "verify0"
        /\ LET w == sendStats(verifyApiKey(World, r), i, "onReady")
           IN /\ Commit(Settle(w, i))
              /\ History(w)
              /\ ev' = Ev("onReadyVerified", r, Ended(w, i))
        /\ UNCHANGED <<client, clientReady, shard, readyListeners>>
        /\ HostIdle

\* the shard broadcast of a collectStats settles
BroadcastSettled ==
    \E i \in DOMAIN tasks, resolved \in BOOLEAN :
        /\ tasks[i].pc = "collect"
        /\ LET w == collectStatsSettled(World, i, resolved)
           IN /\ Commit(Settle(w, i))
              /\ History(w)
              /\ ev' = Ev("broadcast", NoResp, Ended(w, i))
        /\ UNCHANGED <<client, clientReady, shard, readyListeners>>
        /\ HostIdle

\* a POST of postWithRetry settles with r
PostSettled ==
    \E i \in DOMAIN tasks, r \in PostResponses :
        /\ tasks[i].pc = "post"
        /\ LET w == postWithRetryAnswer(World, i, r)
           IN /\ Commit(Settle(w, i))
              /\ History(w)
              /\ ev' = Ev("post", r, Ended(w, i))
        /\ UNCHANGED <<client, clientReady, shard, readyListeners>>
        /\ HostIdle

\* the retry delay of a postWithRetry elapses
RetryDelayElapsed ==
    \E i \in DOMAIN tasks :
        /\ tasks[i].pc = "delay"
        /\ LET w == postWithRetryDelayed(World, i)
           IN Commit(w) /\ History(w)
        /\ ev' = Ev("retry", NoResp, NoTask)
        /\ UNCHANGED <<client, clientReady, shard, readyListeners>>
        /\ HostIdle

\* the verifyApiKey of a rate-limited postWithRetry answers with r
LimitVerified ==
    \E i \in DOMAIN tasks, r \in GetResponses :
        /\ tasks[i].pc = "verify"
        /\ LET w == postWithRetryVerified(World, i, r)
           IN /\ Commit(Settle(w, i))
              /\ History(w)
              /\ ev' = Ev("limitVerified", r, Ended(w, i))
        /\ UNCHANGED <<client, clientReady, shard, readyListeners>>
        /\ HostIdle

Next ==
    \/ Start
    \/ Stop
    \/ ClientReady
    \/ ManualSendStats
    \/ StatsTimerFire
    \/ ManualSendHeartbeat
    \/ HeartbeatTimerFire
    \/ VerifyApiKey
    \/ SyncQuery
    \/ OnReadyVerified
    \/ BroadcastSettled
    \/ PostSettled
    \/ RetryDelayElapsed
    \/ LimitVerified

Spec == Init /\ [][Next]_vars

(***************************************************************************)
(* The surface of the reporter, one call at a time: from the configuration *)
(* handed to the constructor on.                                           *)
(***************************************************************************)
reporterVars ==
    <<client, isRunning, statsIntervalId, heartbeatIntervalId, currentTier,
      updateInterval, failedAttempts, timers, timerSeq, tasks, clientReady,
      shard, readyListeners, stopSinceStart, stopSinceBusiness, ev>>

InitHost ==
    /\ InitFields
    /\ shard = NoShard
    /\ phase = "new"
    /\ config \in ConfigArgs
    /\ webhookServer = FALSE
    /\ reg = IdleReg
    /\ last = NoCall

\* the reporter exists and no registration is in flight
HostReady == phase = "constructed" /\ reg.pc = "idle"

\* a step of setupAutoWebhook leaves r: the call goes on, or it has ended
RegCommit(r) ==
    IF r.pc = "done"
    THEN /\ reg' = IdleReg
         /\ last' = [Call EXCEPT !.op = "setupAutoWebhook", !.result = r.out,
                                   !.failed = r.failed, !.reg = r]
    ELSE /\ reg' = r
         /\ last' = [Call EXCEPT !.op = "setupAutoWebhook", !.reg = r]

\* new BotGateReporter(config)
Construct ==
    /\ phase = "new"
    /\ \E k \in KServices :
          LET h == constructor(config, k)
          IN /\ phase' = h.phase
             /\ config' = h.config
             /\ webhookServer' = h.webhookServer
             /\ reg' = h.reg
             /\ last' = [Call EXCEPT !.op = "constructor", !.arg = k,
                                       !.result = IF h.phase = "failed" THEN "threw"
                                                  ELSE "returned",
                                       !.reg = h.reg]
    /\ UNCHANGED reporterVars

\* a request reaches the webhook listener and its body has been read
WebhookRequest ==
    /\ HostReady
    /\ webhookServer
    /\ \E req \in Requests, listenerThrows \in BOOLEAN :
          LET a == webhookHandler(req, listenerThrows)
          IN last' = [Call EXCEPT !.op = "webhook",
                                    !.arg = [req |-> req, listenerThrows |-> listenerThrows],
                                    !.result = "returned",
                                    !.votes = a.votes, !.status = a.status]
    /\ UNCHANGED <<phase, config, webhookServer, reg>>
    /\ UNCHANGED reporterVars

\* the user calls handleShardMessage(message)
HandleShardMessage ==
    /\ HostReady
    /\ \E message \in Messages :
          LET a == handleShardMessage(World, message)
          IN /\ Commit(a.w)
             /\ History(a.w)
             /\ last' = [Call EXCEPT !.op = "handleShardMessage", !.arg = message,
                                       !.result = "returned", !.votes = a.votes]
    /\ ev' = Ev("handleShardMessage", NoResp, NoTask)
    /\ UNCHANGED <<client, clientReady, shard, readyListeners>>
    /\ UNCHANGED <<phase, config, webhookServer, reg>>

\* the user calls setupAutoWebhook()
SetupAutoWebhook ==
    /\ HostReady
    /\ \E k \in KServices : RegCommit(setupAutoWebhookCall(config, k))
    /\ UNCHANGED <<phase, config, webhookServer>>
    /\ UNCHANGED reporterVars

\* the metadata GET of a registration settles
MetadataSettled ==
    /\ reg.pc = "metadata"
    /\ \E resp \in MetadataResponses : RegCommit(setupAutoWebhookMetadata(reg, resp))
    /\ UNCHANGED <<phase, config, webhookServer>>
    /\ UNCHANGED reporterVars

\* the public-IP GET of a registration settles
PublicIpSettled ==
    /\ reg.pc = "ip"
    /\ \E resp \in PublicIpResponses : RegCommit(setupAutoWebhookIp(reg, resp))
    /\ UNCHANGED <<phase, config, webhookServer>>
    /\ UNCHANGED reporterVars

\* the registration POST settles
RegistrationSettled ==
    /\ reg.pc = "post"
    /\ \E resp \in RegistrationResponses : RegCommit(setupAutoWebhookPosted(reg, resp))
    /\ UNCHANGED <<phase, config, webhookServer>>
    /\ UNCHANGED reporterVars

\* the user calls one of the read-only queries; its GET answers with r
Query ==
    /\ HostReady
    /\ \E q \in Queries, r \in GetResponses :
          LET w == query(World, q, r)
          IN /\ Commit(w)
             /\ History(w)
             /\ ev' = Ev(q, r, NoTask)
             /\ last' = [Call EXCEPT !.op = q, !.result = queryResult(q, r),
                                       !.failed = (r.kind = "err")]
    /\ UNCHANGED <<client, clientReady, shard, readyListeners>>
    /\ UNCHANGED <<phase, config, webhookServer, reg>>

\* the user calls verifyApiKey(); its GET answers with r
VerifyApiKeyCall ==
    /\ HostReady
    /\ \E r \in GetResponses :
          LET w == verifyApiKey(World, r)
          IN /\ Commit(w)
             /\ History(w)
             /\ ev' = Ev("verifyApiKey", r, NoTask)
             /\ last' = [Call EXCEPT !.op = "verifyApiKey", !.result = "returned",
                                       !.failed = (r.kind = "err")]
    /\ UNCHANGED <<client, clientReady, shard, readyListeners>>
    /\ UNCHANGED <<phase, config, webhookServer, reg>>

NextHost ==
    \/ Construct
    \/ WebhookRequest
    \/ HandleShardMessage
    \/ SetupAutoWebhook
    \/ MetadataSettled
    \/ PublicIpSettled
    \/ RegistrationSettled
    \/ Query
    \/ VerifyApiKeyCall

SpecHost == InitHost /\ [][NextHost]_vars

(***************************************************************************)
(* Snapshots: collectStats applied to the clients of Topologies, on a      *)
(* reporter that was started on a ready client and stopped again.          *)
(***************************************************************************)
InitStats ==
    /\ client = TRUE
    /\ isRunning = FALSE
    /\ statsIntervalId = Null
    /\ heartbeatIntervalId = Null
    /\ currentTier = Str("")
    /\ updateInterval = DefaultInterval
    /\ failedAttempts = 0
    /\ timers = {}
    /\ timerSeq = 0
    /\ tasks = <<>>
    /\ clientReady = TRUE
    /\ shard \in {NoShard, 0, 1}
    /\ readyListeners = 0
    /\ stopSinceStart = TRUE
    /\ stopSinceBusiness = FALSE
    /\ ev = Ev("stop", NoResp, NoTask)
    /\ phase = "constructed"
    /\ config = LoopConfig
    /\ webhookServer = FALSE
    /\ reg = IdleReg
    /\ last = NoCall

\* sendStats collects its snapshot from the client
CollectStats ==
    /\ client /\ clientReady
    /\ \E c \in Topologies :
          /\ c.sharded <=> shard # NoShard
          /\ last' = [Call EXCEPT !.op = "collectStats", !.arg = c,
                                  !.result = "returned", !.snapshot = collectStats(c)]
    /\ UNCHANGED <<phase, config, webhookServer, reg>>
    /\ UNCHANGED reporterVars

NextStats == CollectStats

SpecStats == InitStats /\ [][NextStats]_vars

(***************************************************************************)
(* Policy synchronisation from the read-only queries: a reporter just      *)
(* constructed, on a client without sharding context, whose queries are    *)
(* answered with payloads of every shape.                                  *)
(***************************************************************************)
InitPolicy ==
    /\ InitFields
    /\ shard = NoShard
    /\ phase = "constructed"
    /\ config = LoopConfig
    /\ webhookServer = FALSE
    /\ reg = IdleReg
    /\ last = NoCall

\* the user calls one of the read-only queries; its GET answers with r
PolicyQuery ==
    /\ HostReady
    /\ \E q \in Queries, r \in QueryResponses :
          LET w == query(World, q, r)
          IN /\ Commit(w)
             /\ History(w)
             /\ ev' = Ev(q, r, NoTask)
             /\ last' = [Call EXCEPT !.op = q, !.arg = r, !.result = queryResult(q, r),
                                       !.failed = (r.kind = "err")]
    /\ UNCHANGED <<client, clientReady, shard, readyListeners>>
    /\ UNCHANGED <<phase, config, webhookServer, reg>>

NextPolicy == PolicyQuery

SpecPolicy == InitPolicy /\ [][NextPolicy]_vars

(***************************************************************************)
(* Reports with their payload: sendStats on a ready client whose guilds     *)
(* change between any two steps.  A call in flight carries, besides the    *)
(* fields of FreeTask, the client it read (seen), the payload it built from *)
(* it (data) and the payload of each POST it has issued (sent).  The        *)
(* platform answers with the free tier, so no heartbeat is started.         *)
(***************************************************************************)
SendTopologies ==
    {c \in Topologies :
        IF c.sharded THEN Len(c.results) = 1 /\ c.count = 1
        ELSE \A k \in DOMAIN c.guilds : c.guilds[k] = Num(5)}
NoTopology == [sharded |-> TRUE, guilds |-> <<>>, results |-> <<>>, count |-> 0]
SendResponses ==
    {Ok(TRUE, TierNested("free", Num(30))), Ok(FALSE, Undef), Err(0), Err(500), Err(429)}

\* sendStats has not collected yet: it awaits the broadcast
Collecting(t) == [seen |-> NoTopology, data |-> NoSnapshot, sent |-> <<>>] @@ t

\* const stats = await this.collectStats() on client c, and the first POST of
\* postWithRetry(url, {...stats}) carrying it
Collected(t, c) ==
    [seen |-> c, data |-> collectStats(c), sent |-> <<collectStats(c)>>] @@ t

\* faulty variant: the recursive call is made without the payload
postWithRetryDelayedDataLost(w, i) ==
    LET w1 == postWithRetryDelayed(w, i)
    IN [w1 EXCEPT !.tasks[i].sent = Append(@, NoSnapshot)]

\* return this.postWithRetry(url, data, attempt + 1): the next POST carries the
\* data the call was given
postWithRetryDelayedData(w, i) ==
    LET w1 == postWithRetryDelayed(w, i)
    IN [w1 EXCEPT !.tasks[i].sent = Append(@, w.tasks[i].data)]

\* the user or the stats timer calls sendStats() while the client is c
SendStatsCall ==
    /\ Len(tasks) < MaxTasks
    /\ \E c \in SendTopologies :
          /\ c.sharded <=> shard # NoShard
          /\ LET i == Len(tasks) + 1
                 w1 == sendStats(Spawn(World, FreeTask), i, "send")
                 w == [w1 EXCEPT !.tasks[i] = IF @.pc = "post" THEN Collected(@, c)
                                              ELSE Collecting(@)]
             IN /\ Commit(Settle(w, i))
                /\ History(w)
                /\ ev' = Ev("sendStats", NoResp, Ended(w, i))
                /\ last' = [Call EXCEPT !.op = "sendStats", !.arg = c, !.result = "returned"]
    /\ UNCHANGED <<client, clientReady, shard, readyListeners>>
    /\ UNCHANGED <<phase, config, webhookServer, reg>>

\* the broadcast of a sendStats settles while the client is c
SendBroadcastSettled ==
    /\ \E i \in DOMAIN tasks, c \in SendTopologies, resolved \in BOOLEAN :
          /\ tasks[i].pc = "collect"
          /\ c.sharded
          /\ LET w1 == collectStatsSettled(World, i, resolved)
                 w == [w1 EXCEPT !.tasks[i] = IF @.pc = "post" THEN Collected(@, c) ELSE @]
             IN /\ Commit(Settle(w, i))
                /\ History(w)
                /\ ev' = Ev("broadcast", NoResp, Ended(w, i))
    /\ last' = NoCall
    /\ UNCHANGED <<client, clientReady, shard, readyListeners>>
    /\ UNCHANGED <<phase, config, webhookServer, reg>>

\* a POST of a report settles with r
SendPostSettled ==
    /\ \E i \in DOMAIN tasks, r \in SendResponses :
          /\ tasks[i].pc = "post"
          /\ LET w == postWithRetryAnswer(World, i, r)
             IN /\ Commit(Settle(w, i))
                /\ History(w)
                /\ ev' = Ev("post", r, Ended(w, i))
    /\ last' = NoCall
    /\ UNCHANGED <<client, clientReady, shard, readyListeners>>
    /\ UNCHANGED <<phase, config, webhookServer, reg>>

\* the retry delay of a report elapses
SendRetryDelayElapsed ==
    /\ \E i \in DOMAIN tasks :
          /\ tasks[i].pc = "delay"
          /\ LET w == postWithRetryDelayedData(World, i)
             IN Commit(w) /\ History(w)
    /\ ev' = Ev("retry", NoResp, NoTask)
    /\ last' = NoCall
    /\ UNCHANGED <<client, clientReady, shard, readyListeners>>
    /\ UNCHANGED <<phase, config, webhookServer, reg>>

\* the verifyApiKey of a rate-limited report answers with r
SendLimitVerified ==
    /\ \E i \in DOMAIN tasks, r \in SendResponses :
          /\ tasks[i].pc = "verify"
          /\ LET w == postWithRetryVerified(World, i, r)
             IN /\ Commit(Settle(w, i))
                /\ History(w)
                /\ ev' = Ev("limitVerified", r, Ended(w, i))
    /\ last' = NoCall
    /\ UNCHANGED <<client, clientReady, shard, readyListeners>>
    /\ UNCHANGED <<phase, config, webhookServer, reg>>

NextSend ==
    \/ SendStatsCall
    \/ SendBroadcastSettled
    \/ SendPostSettled
    \/ SendRetryDelayElapsed
    \/ SendLimitVerified

SpecSend == InitStats /\ [][NextSend]_vars

\* the reports when every HTTP call and every broadcast settles and every retry
\* delay elapses
SendFairness ==
    /\ WF_vars(SendBroadcastSettled)
    /\ WF_vars(SendPostSettled)
    /\ WF_vars(SendRetryDelayElapsed)
    /\ WF_vars(SendLimitVerified)

SpecSendLive == InitStats /\ [][NextSend]_vars /\ SendFairness

(***************************************************************************)
(* Properties.                                                             *)
(***************************************************************************)
StatsTimers == {t \in timers : t.kind = "stats"}
HeartbeatTimers == {t \in timers : t.kind = "heartbeat"}
StatsArmed == statsIntervalId # Null \/ StatsTimers # {}
HeartbeatArmed == heartbeatIntervalId # Null \/ HeartbeatTimers # {}
OnReadyInFlight == \E i \in DOMAIN tasks : tasks[i].origin = "onReady"

\* payloads a synchronisation is probed with in a reachable state: those of the
\* runs, and further shapes and values
SyncProbes ==
    Payloads \cup
    { TierNested("premium", Num(5)), TierNested("business", Num(30)),
      TierRoot("business", Num(5)), TierRoot("premium", Num(30)),
      TierUpdates("free", Num(5)), TierUpdates("business", Num(10)),
      TierNested("free", Undef), TierNested("business", Undef) }

TierDiffers(d) ==
    Truthy(d) /\ Truthy(TierName(d)) /\ StrictNotEqual(TierName(d), currentTier)
TierEqual(d) ==
    Truthy(d) /\ Truthy(TierName(d)) /\ ~StrictNotEqual(TierName(d), currentTier)
\* the payload declares a whole number of minutes, at least 1
DeclaresMinutes(d) ==
    LET m == IntervalMinutes(d) IN m.t = "num" /\ ~m.frac /\ m.n >= 1
DeclaredMs(d) == IntervalMinutes(d).n * MsPerMinute

\* after syncFromResponse gave w2: the stats timer is a timer installed by it,
\* with the given period, and the timer armed before is cancelled
StatsTimerReplaced(w2, period) ==
    /\ w2.statsIntervalId > timerSeq
    /\ \E t \in w2.timers :
          t.id = w2.statsIntervalId /\ t.kind = "stats" /\ t.period = period
    /\ \A t \in StatsTimers : t \notin w2.timers
\* after syncFromResponse gave w2: the stats timer is the one it was
StatsTimerKept(w2) ==
    /\ w2.statsIntervalId = statsIntervalId
    /\ {t \in w2.timers : t.kind = "stats"} = StatsTimers

\* C1: on a worker with a sharding context whose first shard id is not 0, the
\* stats timer is never armed (a timer-driven report needs an armed stats
\* timer, so none is posted either).
C1_FollowerNeverArmsStatsTimer ==
    (shard # NoShard /\ shard # 0) => ~StatsArmed

\* C2: at most one stats timer and at most one heartbeat timer are live, and
\* the live one is the one the reporter holds the handle of; so no timer is
\* installed while an earlier one of its kind is still live.
C2_AtMostOneTimerPerKind ==
    /\ Cardinality(StatsTimers) <= 1
    /\ Cardinality(HeartbeatTimers) <= 1
    /\ \A t \in StatsTimers : t.id = statsIntervalId
    /\ \A t \in HeartbeatTimers : t.id = heartbeatIntervalId

\* both timers are live while two calls are in flight
C2_Witness ==
    /\ Cardinality(StatsTimers) = 1
    /\ Cardinality(HeartbeatTimers) = 1
    /\ Len(tasks) = 2

\* C3, as stated: whenever the tier of a payload differs from the stored one and
\* the payload declares m minutes, syncFromResponse leaves a newly installed
\* stats timer of period m*60000 and the previous one cancelled.
C3_TierChangeReplacesStatsTimer ==
    \A d \in SyncProbes :
        (TierDiffers(d) /\ DeclaresMinutes(d))
            => StatsTimerReplaced(syncFromResponse(World, d), DeclaredMs(d))

\* C3, amended: that holds when the reporter is running and m*60000 differs
\* from the current interval; otherwise syncFromResponse leaves the stats
\* timer as it was.
C3_TierChangeReplacesStatsTimerWhenRunning ==
    \A d \in SyncProbes :
        (TierDiffers(d) /\ DeclaresMinutes(d))
            => IF isRunning /\ DeclaredMs(d) # updateInterval
               THEN StatsTimerReplaced(syncFromResponse(World, d), DeclaredMs(d))
               ELSE StatsTimerKept(syncFromResponse(World, d))

\* a running reporter with an armed stats timer, about to be answered a payload
\* of another tier and another interval
C3_Witness ==
    /\ isRunning
    /\ Cardinality(StatsTimers) = 1
    /\ \E d \in Payloads :
          TierDiffers(d) /\ DeclaresMinutes(d) /\ DeclaredMs(d) # updateInterval

\* C4: a payload whose tier equals the stored tier changes nothing, whatever
\* interval it declares: tier, interval, both timers, calls in flight.
C4_SameTierSyncIsNoOp ==
    \A d \in SyncProbes : TierEqual(d) => syncFromResponse(World, d) = World

\* a step has just synchronised a payload of the stored tier declaring another
\* interval, with both timers armed
C4_Witness ==
    /\ ev.sync = "sameOtherInterval"
    /\ statsIntervalId # Null
    /\ heartbeatIntervalId # Null

C6_TransientExhaustion ==
    (ev.task.pc = "done" /\ ev.task.posts > 0 /\ ev.task.transients = ev.task.posts)
        => /\ ev.task.posts = RetryAttempts
           /\ ev.task.delays = RetryAttempts - 1
           /\ ev.task.waited = (RetryAttempts - 1) * RetryDelay
           /\ ev.task.out = "exhausted"
           /\ ev.task.incs = 1
           /\ ev.task.verifies = 0
           /\ failedAttempts >= 1

C6_Witness == ev.task.pc = "done" /\ ev.task.out = "exhausted"

\* C7: a POST answered 403 or 429 is the last POST of its postWithRetry call;
\* the call issues exactly one verification, waits for it, and returns a
\* failure.
C7_RateLimitNoRetry ==
    /\ \A i \in DOMAIN tasks, s \in {403, 429} :
          tasks[i].pc = "post" =>
              LET w2 == postWithRetryAnswer(World, i, Err(s))
              IN /\ w2.tasks[i].pc = "verify"
                 /\ w2.tasks[i].posts = tasks[i].posts
                 /\ w2.tasks[i].verifies = 1
    /\ \A i \in DOMAIN tasks :
          tasks[i].pc = "verify" =>
              /\ tasks[i].verifies = 1
              /\ tasks[i].posts = tasks[i].transients + 1
              /\ \A r \in GetResponses :
                    LET w2 == postWithRetryVerified(World, i, r)
                    IN /\ w2.tasks[i].pc = "done"
                       /\ w2.tasks[i].out = "limited"
                       /\ w2.tasks[i].posts = tasks[i].posts
    /\ (ev.task.pc = "done" /\ ev.task.out = "limited") =>
          /\ ev.task.verifies = 1
          /\ ev.task.posts = ev.task.transients + 1
          /\ ev.task.incs = 0

\* a call has just returned after a 403/429 on its first POST
C7_Witness == ev.task.pc = "done" /\ ev.task.out = "limited" /\ ev.task.posts = 1

\* C8: between stop() and the next start() no timer is armed (a timer-driven
\* send needs an armed timer, so none is initiated either).
C8_StopHaltsTimers ==
    stopSinceStart => (~StatsArmed /\ ~HeartbeatArmed)

\* C9: while the leader's start sequence is in progress (its initial report has
\* not completed), the stats timer is not armed.
C9_StatsTimerArmedAfterInitialReport ==
    OnReadyInFlight => ~StatsArmed

\* C10: once the start sequence of a started, ready leader has ended, in
\* whatever way, the stats timer is armed.
C10_StartSequenceEndsArmed ==
    (isRunning /\ clientReady /\ isLeader /\ ~OnReadyInFlight) => StatsArmed

\* the operations on the reporter's surface that rest on an HTTP call
PublicOps == Queries \cup {"verifyApiKey", "setupAutoWebhook"}

\* C11: a public operation whose underlying HTTP call failed returns; it does
\* not throw (or reject).
C11_TransportFailureIsReturned ==
    (last.op \in PublicOps /\ last.failed) => last.result # "threw"

\* C12: when the reporter has no client or the client is not ready, sendStats
\* throws the not-ready error before any request is issued, and the tier, the
\* interval, the failure counter, both timers and the calls in flight are what
\* they were.
C12_SendStatsNotReadyThrows ==
    (~(client /\ clientReady) /\ Len(tasks) < MaxTasks)
        => LET i == Len(tasks) + 1
               w == sendStats(Spawn(World, FreeTask), i, "send")
           IN /\ w.tasks[i].pc = "done"
              /\ w.tasks[i].out = "threw"
              /\ w.tasks[i].posts = 0
              /\ Settle(w, i) = World

\* sendStats has just thrown on a client that is not ready, with the heartbeat
\* timer armed
C12_Witness ==
    /\ ev.task.pc = "done" /\ ev.task.out = "threw"
    /\ ~clientReady
    /\ heartbeatIntervalId # Null

\* C13: the constructor throws exactly when botId or apiKey is missing or
\* empty, and then no listener is bound, no registration started and no call
\* issued; a constructed reporter has a non-empty botId and apiKey, and no step
\* changes them.
C13_ConstructionValidated ==
    [][/\ (phase = "new" /\ phase' # "new")
             => (phase' = "failed" <=> (~Truthy(config.botId) \/ ~Truthy(config.apiKey)))
       /\ phase' = "failed"
             => (~webhookServer' /\ reg' = IdleReg /\ tasks' = <<>> /\ timers' = {})
       /\ phase' = "constructed"
             => (Truthy(config'.botId) /\ Truthy(config'.apiKey))
       /\ phase = "constructed"
             => (config'.botId = config.botId /\ config'.apiKey = config.apiKey)
      ]_vars

\* the constructor has thrown on a configuration asking for webhooks and
\* auto-registration
C13_Witness ==
    /\ phase = "failed"
    /\ last.op = "constructor" /\ last.result = "threw"
    /\ config.enableWebhooks /\ config.autoConfig

\* the first shard ids a client may have
ShardIds == {NoShard} \cup (0..(MaxFleet - 1))

\* C14: the leadership decision is true exactly for a client without sharding
\* context or with first shard id 0; among the workers 0..N-1 of a fleet, N>1,
\* worker 0 is the only leader; and the start sequence runs on a leader only.
C14_LeadershipDecision ==
    /\ \A s \in ShardIds : isLeaderFor(s) <=> (s = NoShard \/ s = 0)
    /\ \A n \in 2..MaxFleet : {s \in 0..(n - 1) : isLeaderFor(s)} = {0}
    /\ OnReadyInFlight => (shard = NoShard \/ shard = 0)

\* the worker with shard id 0 has taken the decision and runs the start sequence
C14_Witness == shard = 0 /\ OnReadyInFlight

\* the sum of the first n numbers of vals
RECURSIVE SumTo(_, _)
SumTo(vals, n) == IF n = 0 THEN 0 ELSE SumTo(vals, n - 1) + vals[n]
Total(vals) == SumTo(vals, Len(vals))
CountOf(mc) == IF mc.t = "num" THEN mc.n ELSE 0

\* C15: with a sharding context the snapshot's serverCount and userCount are
\* the sums of the workers' answers and its shardCount is the shard count of
\* the topology (answers {2,5},{3,1},{0,10} of 3 shards give 5, 16, 3);
\* without one they are the number of local guilds, the sum of their member
\* counts, and 1.
C15_SnapshotSums ==
    /\ collectStats([sharded |-> TRUE, guilds |-> <<>>, count |-> 3,
                     results |-> <<WorkerResult(2, 5), WorkerResult(3, 1),
                                   WorkerResult(0, 10)>>])
          = [serverCount |-> 5, userCount |-> 16, shardCount |-> 3]
    /\ last.op = "collectStats" =>
          LET c == last.arg
          IN IF c.sharded
             THEN /\ last.snapshot.serverCount = Total([k \in DOMAIN c.results |-> c.results[k].guilds])
                  /\ last.snapshot.userCount = Total([k \in DOMAIN c.results |-> c.results[k].users])
                  /\ last.snapshot.shardCount = c.count
             ELSE /\ last.snapshot.serverCount = Len(c.guilds)
                  /\ last.snapshot.userCount = Total([k \in DOMAIN c.guilds |-> CountOf(c.guilds[k])])
                  /\ last.snapshot.shardCount = 1

\* the snapshot of the three workers {2,5},{3,1},{0,10} has been collected
C15_Witness ==
    /\ last.op = "collectStats"
    /\ last.arg.sharded /\ last.arg.count = 3
    /\ last.arg.results = <<WorkerResult(2, 5), WorkerResult(3, 1), WorkerResult(0, 10)>>
    /\ last.snapshot = [serverCount |-> 5, userCount |-> 16, shardCount |-> 3]

\* the request of the last call is a POST to /webhook
WebhookPost ==
    last.op = "webhook" /\ last.arg.req.method = "POST" /\ last.arg.req.url = "/webhook"

\* C16, as stated: a POST to /webhook whose body parses emits exactly one
\* "vote", carrying the body's details field when it has one and the whole
\* body otherwise, and is answered 200.
C16_ParseableBodyRepublished ==
    (WebhookPost /\ last.arg.req.body.valid)
        => LET data == last.arg.req.body.value
           IN /\ Len(last.votes) = 1
              /\ last.votes[1] = (IF Field(data, "details") # Undef
                                  THEN Field(data, "details") ELSE data)
              /\ last.status = 200

\* C16, amended: that holds when the body parses to a value other than null and
\* no "vote" listener throws, with the details field taken when it is truthy;
\* a body parsing to null emits nothing and is answered 400, and a throwing
\* listener turns the answer into 400 after the one event.
C16_ParseableBodyRepublishedUnlessNull ==
    (WebhookPost /\ last.arg.req.body.valid)
        => LET data == last.arg.req.body.value
           IN IF data.t = "null"
              THEN last.votes = <<>> /\ last.status = 400
              ELSE /\ Len(last.votes) = 1
                   /\ last.votes[1] = (IF Truthy(Field(data, "details"))
                                       THEN Field(data, "details") ELSE data)
                   /\ last.status = (IF last.arg.listenerThrows THEN 400 ELSE 200)

\* a POST to /webhook carrying details has been republished and answered 200
C16_Witness ==
    /\ WebhookPost
    /\ last.arg.req.body.valid
    /\ Truthy(Field(last.arg.req.body.value, "details"))
    /\ last.votes = <<Field(last.arg.req.body.value, "details")>>
    /\ last.status = 200

\* C17: a request emits a "vote" only if it is a POST to /webhook whose body
\* parses; a POST to /webhook whose body does not parse is answered 400, every
\* other method or path 404, both without an event.
C17_NoVoteUnlessParseablePost ==
    last.op = "webhook" =>
        /\ last.votes # <<>> => (WebhookPost /\ last.arg.req.body.valid)
        /\ (WebhookPost /\ ~last.arg.req.body.valid)
              => (last.status = 400 /\ last.votes = <<>>)
        /\ ~WebhookPost => (last.status = 404 /\ last.votes = <<>>)

\* a GET of /webhook with a body that parses has been answered 404
C17_Witness ==
    /\ last.op = "webhook"
    /\ last.arg.req.method = "GET" /\ last.arg.req.url = "/webhook"
    /\ last.arg.req.body.valid /\ last.arg.req.body.value.t = "obj"
    /\ last.status = 404 /\ last.votes = <<>>

\* C18: handleShardMessage(m) emits one "vote" carrying m.data when m.type is
\* BOTGATE_VOTE and nothing for any other message, null included, and leaves
\* the reporter's fields (tier, interval, timers, failure counter) as they were.
C18_ShardMessageRepublished ==
    /\ \A m \in Messages :
          LET a == handleShardMessage(World, m)
          IN /\ a.w = World
             /\ a.votes = (IF m.t = "obj" /\ m.type = VoteMarker THEN <<m.data>> ELSE <<>>)
    /\ last.op = "handleShardMessage" =>
          last.votes = (IF last.arg.t = "obj" /\ last.arg.type = VoteMarker
                        THEN <<last.arg.data>> ELSE <<>>)

\* a vote message has been republished while the heartbeat timer is armed
C18_Witness ==
    /\ last.op = "handleShardMessage"
    /\ last.votes = <<VoteBody(Undef, "u1")>>
    /\ heartbeatIntervalId # Null

\* C19: a setupAutoWebhook call always returns, whatever failed in it, having
\* issued at most one registration POST; and a constructor given a botId and an
\* apiKey returns a reporter, auto-registration or not.
C19_RegistrationBestEffort ==
    /\ reg.pc # "idle" => (phase = "constructed" /\ reg.posts <= 1 /\ reg.out = "none")
    /\ (last.op = "setupAutoWebhook" /\ last.reg.pc = "done")
          => (last.result = "returned" /\ last.reg.posts <= 1)
    /\ (last.op = "constructor" /\ Truthy(config.botId) /\ Truthy(config.apiKey))
          => (last.result = "returned" /\ phase = "constructed")

\* a registration on the managed-serverless branch has ended on a metadata
\* failure
C19_Witness ==
    /\ last.op = "setupAutoWebhook"
    /\ last.reg.pc = "done" /\ last.reg.failed
    /\ last.reg.branches = {"cloudrun"} /\ last.reg.posts = 0

\* the registration attempts in sight: the one in flight, the one just ended
RegsInSight ==
    (IF reg.pc # "idle" THEN {reg} ELSE {})
    \cup (IF last.op = "setupAutoWebhook" THEN {last.reg} ELSE {})

\* C20: every registration attempt runs exactly one detection branch: the
\* managed-serverless one when K_SERVICE is set (to a non-empty value), loopback
\* base address or not; otherwise the loopback one when the base address
\* contains localhost or 127.0.0.1; otherwise the public-IP one.
C20_DetectionOrder ==
    \A r \in RegsInSight :
        r.branches =
            (IF Truthy(r.kService) THEN {"cloudrun"}
             ELSE IF Includes(config.apiUrl, "localhost") \/ Includes(config.apiUrl, "127.0.0.1")
                  THEN {"localhost"}
                  ELSE {"publicip"})

\* a registration is in flight with K_SERVICE set and a loopback base address
C20_Witness ==
    /\ reg.pc = "metadata"
    /\ Truthy(reg.kService)
    /\ Includes(config.apiUrl, "127.0.0.1")

\* C21: when a send (sendStats or sendHeartbeat) returns after a response, the
\* synchronisation of that response is complete: the state in which the call is
\* done differs from the state syncFromResponse leaves only in the call's own
\* outcome and the failure counter, so the stored tier is the response's tier
\* and the interval the one it declares; the same holds for the verification
\* that follows a 403/429.
C21_SyncAppliedBeforeOutcome ==
    /\ \A i \in DOMAIN tasks, r \in PostResponses :
          (tasks[i].pc = "post" /\ r.kind = "ok") =>
              LET w2 == postWithRetryAnswer(World, i, r)
                  s == IF r.success THEN syncFromResponse(World, r.data) ELSE World
              IN /\ w2.tasks[i].pc = "done" /\ w2.tasks[i].out = "success"
                 /\ [w2 EXCEPT !.tasks[i] = tasks[i], !.failedAttempts = failedAttempts] = s
                 /\ (r.success /\ TierDiffers(r.data)) => w2.currentTier = TierName(r.data)
                 /\ (r.success /\ TierDiffers(r.data) /\ DeclaresMinutes(r.data))
                       => w2.updateInterval = DeclaredMs(r.data)
    /\ \A i \in DOMAIN tasks, r \in GetResponses :
          tasks[i].pc = "verify" =>
              LET w2 == postWithRetryVerified(World, i, r)
              IN /\ w2.tasks[i].pc = "done"
                 /\ [w2 EXCEPT !.tasks[i] = tasks[i]] = verifyApiKey(World, r)

\* a report is awaiting its answer on a running reporter with an armed stats
\* timer, and the answer that changes tier and interval ends the call with the
\* stats timer replaced
C21_Witness ==
    /\ isRunning
    /\ Cardinality(StatsTimers) = 1
    /\ \E i \in DOMAIN tasks, d \in Payloads :
          /\ tasks[i].pc = "post" /\ tasks[i].url = "stats"
          /\ TierDiffers(d) /\ DeclaresMinutes(d) /\ DeclaredMs(d) # updateInterval
          /\ LET w2 == postWithRetryAnswer(World, i, Ok(TRUE, d))
             IN /\ w2.ok
                /\ w2.tasks[i].pc = "done"
                /\ StatsTimerReplaced(w2, DeclaredMs(d))

\* C22: in every reachable state stop() completes, leaves no timer live, both
\* handles empty and the running flag false, touches nothing else (tier,
\* interval, failure counter, calls in flight), and a second stop() changes
\* nothing more.
C22_StopIdempotent ==
    LET s == stop(World)
    IN /\ s.ok
       /\ s.timers = {}
       /\ s.statsIntervalId = Null /\ s.heartbeatIntervalId = Null
       /\ ~s.isRunning
       /\ s = [World EXCEPT !.timers = {}, !.statsIntervalId = Null,
                            !.heartbeatIntervalId = Null, !.isRunning = FALSE]
       /\ stop(s) = s

\* stop() has been called on a reporter whose tier was "business", with calls in
\* flight, and nothing has been started since
C22_Witness ==
    /\ stopSinceStart /\ stopSinceBusiness
    /\ ~isRunning
    /\ timers = {}
    /\ Len(tasks) = 2

\* C23: a synchronisation that changes the tier to "business" while no
\* heartbeat timer is armed issues exactly one heartbeat POST at once and arms
\* one heartbeat timer of period 5 minutes; one that changes the tier away from
\* "business" leaves no heartbeat timer live and the handle empty (so no
\* timer-driven heartbeat follows), and issues no heartbeat.
C23_HeartbeatFollowsTierChange ==
    \A d \in SyncProbes :
        LET w2 == syncFromResponse(World, d)
        IN /\ (TierDiffers(d) /\ TierName(d) = Str("business") /\ heartbeatIntervalId = Null
                 /\ Len(tasks) < MaxTasks)
                 => /\ Len(w2.tasks) = Len(tasks) + 1
                    /\ SubSeq(w2.tasks, 1, Len(tasks)) = tasks
                    /\ w2.tasks[Len(w2.tasks)] = postWithRetryCall("heartbeat", "heartbeat")
                    /\ w2.heartbeatIntervalId # Null
                    /\ {t \in w2.timers : t.kind = "heartbeat"}
                          = {[id |-> w2.heartbeatIntervalId, kind |-> "heartbeat",
                              period |-> 5 * 60 * 1000]}
           /\ (TierDiffers(d) /\ TierName(d) # Str("business") /\ currentTier = Str("business"))
                 => /\ w2.heartbeatIntervalId = Null
                    /\ {t \in w2.timers : t.kind = "heartbeat"} = {}
                    /\ w2.tasks = tasks

\* the tier is "business", the heartbeat timer is armed with a first heartbeat
\* in flight, and an answer naming another tier cancels the timer
C23_Witness ==
    /\ currentTier = Str("business")
    /\ Cardinality(HeartbeatTimers) = 1
    /\ \E k \in DOMAIN tasks : tasks[k] = postWithRetryCall("heartbeat", "heartbeat")
    /\ \E d \in Payloads :
          /\ TierDiffers(d)
          /\ syncFromResponse(World, d).heartbeatIntervalId = Null
          /\ syncFromResponse(World, d).timers = StatsTimers

\* C24: once the start sequence of a started, ready leader has completed, the
\* heartbeat timer is armed if the stored tier is "business", a restart after
\* stop() included.
C24_HeartbeatArmedOnEnteringRunning ==
    (isRunning /\ clientReady /\ isLeader /\ ~OnReadyInFlight /\ StatsArmed
        /\ currentTier = Str("business"))
        => heartbeatIntervalId # Null

\* C25: every live stats timer runs at the current reporting interval.
C25_StatsTimerPeriodIsInterval ==
    \A t \in StatsTimers : t.period = updateInterval

\* C26: the reporting interval is a positive number of milliseconds.
C26_IntervalPositive ==
    updateInterval # NaN /\ updateInterval > 0

\* the payloads two synchronisations in a row are probed with
OrderProbeSeq ==
    << TierNested("business", Num(10)), TierNested("business", Num(30)),
       TierUpdates("business", Num(10)), TierNested("free", Undef) >>
OrderProbes == {OrderProbeSeq[k] : k \in DOMAIN OrderProbeSeq}

\* two payloads carry the same tier
SameTier(d1, d2) ==
    Truthy(d1) /\ Truthy(d2) /\ Truthy(TierName(d1)) /\ TierName(d1) = TierName(d2)

\* C27, as stated: applying a payload twice leaves what applying it once
\* leaves, and two payloads carrying the same tier leave the same state in
\* either order, whatever intervals they declare.
C27_SyncIdempotentCommutative ==
    /\ \A d \in OrderProbes :
          syncFromResponse(syncFromResponse(World, d), d) = syncFromResponse(World, d)
    /\ \A d1, d2 \in OrderProbes :
          SameTier(d1, d2)
              => syncFromResponse(syncFromResponse(World, d1), d2)
                    = syncFromResponse(syncFromResponse(World, d2), d1)

\* C27, amended: applying a payload twice leaves what applying it once leaves;
\* of two payloads carrying the same tier the one applied first decides and the
\* second changes nothing, so either order leaves the same tier and the same
\* heartbeat timer (armed or not, at the same period), and the same state
\* altogether when the stored tier is already theirs or both declare the same
\* interval.
C27_SyncIdempotentFirstDecides ==
    \* every pair of probes, the pair of a probe with itself included
    \A i \in DOMAIN OrderProbeSeq : \A j \in i..Len(OrderProbeSeq) :
        LET d1 == OrderProbeSeq[i]
            d2 == OrderProbeSeq[j]
        IN SameTier(d1, d2) =>
              \* w1 is the state after d1 then d2, w2 the state after d2 then d1
              LET w1 == syncFromResponse(World, d1)
                  w2 == syncFromResponse(World, d2)
              IN /\ syncFromResponse(w1, d2) = w1
                 /\ syncFromResponse(w2, d1) = w2
                 /\ w1.currentTier = w2.currentTier
                 /\ (w1.heartbeatIntervalId = Null) <=> (w2.heartbeatIntervalId = Null)
                 /\ {t.period : t \in {u \in w1.timers : u.kind = "heartbeat"}}
                       = {t.period : t \in {u \in w2.timers : u.kind = "heartbeat"}}
                 /\ (TierEqual(d1) \/ IntervalMinutes(d1) = IntervalMinutes(d2))
                       => w1 = w2

\* a running reporter with an armed stats timer on which two payloads of one
\* tier declaring 10 and 30 minutes leave different intervals in the two orders
C27_Witness ==
    /\ isRunning
    /\ Cardinality(StatsTimers) = 1
    /\ LET d1 == TierNested("business", Num(10))
           d2 == TierNested("business", Num(30))
           w12 == syncFromResponse(syncFromResponse(World, d1), d2)
           w21 == syncFromResponse(syncFromResponse(World, d2), d1)
       IN /\ TierDiffers(d1)
          /\ w12.ok /\ w21.ok
          /\ w12.updateInterval = 10 * 60 * 1000
          /\ w21.updateInterval = 30 * 60 * 1000

\* the tier names of the platform
TierNames == {"free", "premium", "business"}

\* the tier a payload carries under its "tier" field (the name of the object,
\* or the string itself) and the one it carries at its root
NestedTier(d) ==
    LET t == Field(d, "tier") IN IF t.t = "obj" THEN Field(t, "name") ELSE t
RootTier(d) == Field(d, "name")

\* the queries that synchronise
SyncingQueries == {"getBotInfo", "getApiUsage"}

\* C28: the tier extracted is the same name whether the payload nests it under
\* "tier" (as an object with a name or as a plain string) or carries the tier
\* fields at its root; no tier is found exactly when neither place carries
\* one; and after a synchronising query answered with a payload that carries a
\* tier in either place, that tier is the stored one.
C28_TierExtractedFromBothShapes ==
    /\ \A n \in TierNames, u \in {Undef, Num(10)} :
          /\ TierName(TierNested(n, u)) = Str(n)
          /\ TierName(TierRoot(n, u)) = Str(n)
          /\ TierName(TierFields(n, u)) = Str(n)
    /\ \A d \in SyncProbes \cup QueryPayloads :
          /\ ~Truthy(TierName(d)) <=> (~Truthy(NestedTier(d)) /\ ~Truthy(RootTier(d)))
          /\ Truthy(NestedTier(d)) => TierName(d) = NestedTier(d)
          /\ (~Truthy(NestedTier(d)) /\ Truthy(RootTier(d))) => TierName(d) = RootTier(d)
    /\ (last.op \in SyncingQueries /\ last.arg.kind = "ok" /\ last.arg.success) =>
          LET d == last.arg.data
          IN /\ Truthy(NestedTier(d)) => currentTier = NestedTier(d)
             /\ (~Truthy(NestedTier(d)) /\ Truthy(RootTier(d))) => currentTier = RootTier(d)

\* getApiUsage has been answered with the tier fields at the root of the
\* payload, and the tier is stored
C28_Witness ==
    /\ last.op = "getApiUsage"
    /\ last.arg = Ok(TRUE, TierFields("business", Num(10)))
    /\ currentTier = Str("business")
    /\ updateInterval = 10 * 60 * 1000
    /\ heartbeatIntervalId # Null

\* C29: the stored tier is the empty initial value or a tier of the platform;
\* in particular the answer to getBotInfo, a bot profile with the bot's own
\* name at its root and no tier, does not change it.
C29_TierOnlyFromDeclaredTier ==
    currentTier \in {Str("")} \cup {Str(n) : n \in TierNames}

\* C30: after any of the five read-only queries has been answered successfully
\* with a payload that carries a tier, that tier is the stored tier.
C30_EveryQuerySynchronises ==
    (last.op \in Queries /\ last.arg.kind = "ok" /\ last.arg.success
        /\ Truthy(TierName(last.arg.data)))
        => currentTier = TierName(last.arg.data)

\* the outcomes a send delivers to its caller
Outcomes == {"success", "limited", "exhausted"}

\* C31: stop() leaves the calls in flight as they are, and a send waiting on a
\* request, on its retry delay or on its verification goes on after stop()
\* exactly as it would have without it: the same next attempt, the same
\* outcome, the same effect on the failure counter; a call that ends while the
\* reporter is stopped delivers an outcome, an exhausted one with the failure
\* counter incremented once.
C31_StopLeavesSendsInFlight ==
    LET s == stop(World)
    IN /\ s.tasks = tasks
       /\ \A i \in DOMAIN tasks :
             /\ tasks[i].pc = "post" =>
                   \A r \in PostResponses :
                       LET a == postWithRetryAnswer(s, i, r)
                           b == postWithRetryAnswer(World, i, r)
                       IN /\ a.tasks[i] = b.tasks[i]
                          /\ a.failedAttempts = b.failedAttempts
                          /\ a.tasks[i].pc \in {"done", "delay", "verify"}
                          /\ a.tasks[i].pc = "done" => a.tasks[i].out \in Outcomes
             /\ tasks[i].pc = "delay" =>
                   LET a == postWithRetryDelayed(s, i)
                   IN /\ a.tasks[i] = postWithRetryDelayed(World, i).tasks[i]
                      /\ a.tasks[i].pc = "post"
                      /\ a.tasks[i].attempt = tasks[i].attempt + 1
             /\ tasks[i].pc = "verify" =>
                   \A r \in GetResponses :
                       LET a == postWithRetryVerified(s, i, r)
                       IN a.tasks[i].pc = "done" /\ a.tasks[i].out = "limited"
       /\ (stopSinceStart /\ ev.task.pc = "done" /\ ev.task.posts > 0)
             => /\ ev.task.out \in Outcomes
                /\ ev.task.out = "exhausted"
                      => (ev.task.posts = RetryAttempts /\ ev.task.incs = 1)

\* a report waits on its retry delay and another call on its request, on a
\* running reporter with both timers armed: stop() cancels the timers and the
\* report goes on to its next attempt
C31_Witness ==
    /\ isRunning
    /\ Cardinality(StatsTimers) = 1
    /\ Cardinality(HeartbeatTimers) = 1
    /\ \E i, j \in DOMAIN tasks :
          /\ tasks[i].pc = "delay" /\ tasks[i].url = "stats"
          /\ tasks[j].pc = "post"
          /\ LET s == stop(World)
             IN /\ s.timers = {} /\ ~s.isRunning
                /\ s.tasks = tasks
                /\ postWithRetryDelayed(s, i).tasks[i].pc = "post"

\* the stats timer the reporter holds the handle of is live in w
StatsTimerLive(w) ==
    /\ w.statsIntervalId # Null
    /\ \E t \in w.timers : t.id = w.statsIntervalId /\ t.kind = "stats"

\* C32: no failed outcome of a send cancels the stats timer.  A POST that fails
\* (no answer, 500, 403, 429), on whatever attempt and whatever the failure
\* counter, leaves the stats timer and its handle as they were; the
\* verification that follows a 403/429 leaves a live stats timer live (the same
\* one, or its replacement at the new interval); and with a live stats timer on
\* a ready client the next report is issued, whatever the failure counter.
C32_FailuresNeverHaltSchedule ==
    /\ \A i \in DOMAIN tasks, r \in PostResponses :
          (tasks[i].pc = "post" /\ r.kind = "err") =>
              LET w2 == postWithRetryAnswer(World, i, r)
                  w3 == Settle(w2, i)
              IN /\ w2.statsIntervalId = statsIntervalId
                 /\ w2.timers = timers
                 /\ w2.isRunning = isRunning
                 /\ StatsTimerLive(World) => StatsTimerLive(w3)
    /\ \A i \in DOMAIN tasks, r \in GetResponses :
          tasks[i].pc = "verify" =>
              LET w3 == Settle(postWithRetryVerified(World, i, r), i)
              IN /\ StatsTimerLive(World) => StatsTimerLive(w3)
                 /\ w3.isRunning = isRunning
    /\ (StatsTimers # {} /\ client /\ clientReady /\ Len(tasks) < MaxTasks) =>
          LET k == Len(tasks) + 1
              w == sendStats(Spawn(World, FreeTask), k, "send")
          IN w.ok /\ w.tasks[k].pc \in {"post", "collect"}

\* on a running reporter with its stats timer armed and one failure counted, a
\* report is on its last attempt, and a further failure leaves the timer armed
C32_Witness ==
    /\ isRunning
    /\ Cardinality(StatsTimers) = 1
    /\ failedAttempts = 1
    /\ \E i \in DOMAIN tasks :
          /\ tasks[i].pc = "post" /\ tasks[i].url = "stats" /\ tasks[i].origin = "send"
          /\ tasks[i].attempt = RetryAttempts
          /\ LET w2 == postWithRetryAnswer(World, i, Err(500))
             IN /\ w2.tasks[i].out = "exhausted"
                /\ w2.failedAttempts = 2
                /\ StatsTimerLive(Settle(w2, i))

\* C33: a postWithRetry call whose POST number k is answered, after k-1
\* transient failures, has made exactly k POSTs (k at most RetryAttempts), one
\* delay before each but the first, no verification; it returns success=true
\* with the response body, and failedAttempts is 0 afterwards whatever it was.
C33_SuccessAfterRetriesResets ==
    /\ \A i \in DOMAIN tasks :
          tasks[i].pc = "post" =>
              /\ tasks[i].posts = tasks[i].attempt
              /\ tasks[i].transients = tasks[i].attempt - 1
              /\ tasks[i].attempt <= RetryAttempts
              /\ \A r \in PostResponses :
                    r.kind = "ok" =>
                        LET w2 == postWithRetryAnswer(World, i, r)
                        IN /\ w2.tasks[i].pc = "done" /\ w2.tasks[i].out = "success"
                           /\ w2.tasks[i].posts = tasks[i].attempt
                           /\ w2.failedAttempts = 0
                           /\ postWithRetryResult(r).success
                           /\ postWithRetryResult(r).data.data = r.data
    /\ (ev.task.pc = "done" /\ ev.task.out = "success")
          => /\ ev.task.posts = ev.task.transients + 1
             /\ ev.task.posts <= RetryAttempts
             /\ ev.task.delays = ev.task.transients
             /\ ev.task.verifies = 0 /\ ev.task.incs = 0
             /\ failedAttempts = 0

\* with one failure counted, a call is on its last attempt after two transient
\* failures, and the answer of the platform resets the counter
C33_Witness ==
    /\ failedAttempts = 1
    /\ \E i \in DOMAIN tasks, d \in Payloads :
          /\ tasks[i].pc = "post" /\ tasks[i].attempt = RetryAttempts
          /\ tasks[i].transients = RetryAttempts - 1
          /\ LET w2 == postWithRetryAnswer(World, i, Ok(TRUE, d))
             IN w2.ok /\ w2.failedAttempts = 0 /\ w2.tasks[i].out = "success"

\* the snapshot of client c: the guilds and members it has when it is read
SnapshotOf(c) ==
    IF c.sharded
    THEN [serverCount |-> Total([k \in DOMAIN c.results |-> c.results[k].guilds]),
          userCount |-> Total([k \in DOMAIN c.results |-> c.results[k].users]),
          shardCount |-> c.count]
    ELSE [serverCount |-> Len(c.guilds),
          userCount |-> Total([k \in DOMAIN c.guilds |-> CountOf(c.guilds[k])]),
          shardCount |-> 1]

\* the reports that have collected their snapshot
Reports == {i \in DOMAIN tasks : tasks[i].pc \in {"post", "delay", "verify"}}

\* C34: every report carries the snapshot of the client as it was when the
\* report collected it (a sendStats call on an unsharded client reads the
\* client of that very call), so two reports that read different clients
\* carry different snapshots; and every POST of one report, the first and each
\* retry, carries that same payload.
C34_FreshSnapshotSamePayload ==
    /\ \A i \in Reports :
          /\ tasks[i].data = SnapshotOf(tasks[i].seen)
          /\ Len(tasks[i].sent) = tasks[i].posts
          /\ \A k \in DOMAIN tasks[i].sent : tasks[i].sent[k] = tasks[i].data
    /\ \A i, j \in Reports :
          tasks[i].seen # tasks[j].seen => tasks[i].data # tasks[j].data
    /\ (last.op = "sendStats" /\ ~last.arg.sharded) =>
          \E i \in Reports :
              /\ tasks[i].posts = 1
              /\ tasks[i].seen = last.arg
              /\ tasks[i].sent = <<SnapshotOf(last.arg)>>
    /\ (ev.task.pc = "done" /\ ev.task.posts > 0) =>
          /\ Len(ev.task.sent) = ev.task.posts
          /\ \A k \in DOMAIN ev.task.sent : ev.task.sent[k] = SnapshotOf(ev.task.seen)

\* a report is on its third POST, all three carrying the snapshot it collected,
\* while a later report carries another snapshot
C34_Witness ==
    \E i, j \in Reports :
        /\ tasks[i].posts = RetryAttempts
        /\ tasks[i].sent = <<tasks[i].data, tasks[i].data, tasks[i].data>>
        /\ tasks[j].posts = 1
        /\ tasks[j].data # tasks[i].data

\* C35: when K_SERVICE is set and the metadata GET fails, the registration ends
\* there: one GET in all (the lookup is not repeated), the managed-serverless
\* branch only (no loopback, no public-IP lookup), no registration POST, and
\* the call returns with the failure recorded, it does not throw.
C35_MetadataFailureEndsRegistration ==
    /\ reg.pc = "metadata" =>
          /\ Truthy(reg.kService)
          /\ reg.gets = 1 /\ reg.posts = 0 /\ reg.branches = {"cloudrun"}
          /\ \A resp \in MetadataResponses :
                resp.kind = "err" =>
                    setupAutoWebhookMetadata(reg, resp)
                        = [reg EXCEPT !.pc = "done", !.failed = TRUE, !.out = "returned"]
    /\ (last.op = "setupAutoWebhook" /\ last.reg.pc = "done"
          /\ Truthy(last.reg.kService) /\ last.reg.posts = 0)
          => /\ last.reg.gets = 1
             /\ last.reg.branches = {"cloudrun"}
             /\ last.reg.webhookUrl = ""
             /\ last.reg.failed
             /\ last.result = "returned"
             /\ reg = IdleReg

\* with K_SERVICE set and a loopback base address, a registration has ended on
\* the failure of its metadata GET
C35_Witness ==
    /\ last.op = "setupAutoWebhook"
    /\ last.reg.pc = "done" /\ last.reg.failed /\ last.result = "returned"
    /\ Truthy(last.reg.kService)
    /\ last.reg.gets = 1 /\ last.reg.posts = 0
    /\ Includes(config.apiUrl, "localhost")

\* every call in flight has made at most RetryAttempts POSTs and at most one
\* verification, and none after its verification
CallsBounded ==
    /\ \A i \in DOMAIN tasks :
          /\ tasks[i].posts <= RetryAttempts
          /\ tasks[i].attempt <= RetryAttempts
          /\ tasks[i].verifies <= 1
          /\ tasks[i].verifies = 1 => tasks[i].pc = "verify"
          /\ tasks[i].pc = "delay" => tasks[i].attempt < RetryAttempts
    /\ (ev.task.pc = "done" /\ ev.task.posts > 0)
          => /\ ev.task.out \in Outcomes
             /\ ev.task.posts <= RetryAttempts
             /\ ev.task.verifies <= 1
             /\ ev.task.verifies = 1 <=> ev.task.out = "limited"

\* C36: every postWithRetry call makes at most RetryAttempts POSTs and at most
\* one verification GET, and no POST after its verification; and when every
\* HTTP call settles and every delay elapses, no call stays in flight for
\* ever: if from some point on calls are always in flight, sendStats() is
\* called again and again.
C36_PostWithRetryTerminates ==
    /\ []CallsBounded
    /\ (<>[](tasks # <<>>) => []<><<SendStatsCall>>_vars)

\* a call awaits its verification after a 403/429 on its last attempt
C36_Witness ==
    \E i \in DOMAIN tasks :
        /\ tasks[i].pc = "verify"
        /\ tasks[i].posts = RetryAttempts
        /\ tasks[i].verifies = 1

\* C37: the heartbeat timer is armed only while the reporter is running as
\* leader: not before start(), not after stop(), not on a worker whose first
\* shard id is not 0.
C37_HeartbeatOnlyWhileRunningLeader ==
    HeartbeatArmed => (isRunning /\ isLeader)

\* C38: a postWithRetry call that ends on a 403 or 429 leaves failedAttempts
\* as it was: the rejected POST does not change it, on the first attempt or
\* after transient failures of the same call (which do not change it either),
\* and the verification that follows does not change it, whatever it answers.
C38_RateLimitLeavesCounter ==
    /\ \A i \in DOMAIN tasks :
          /\ tasks[i].pc = "post" =>
                /\ \A s \in {403, 429} :
                      postWithRetryAnswer(World, i, Err(s)).failedAttempts = failedAttempts
                /\ tasks[i].attempt < RetryAttempts =>
                      \A s \in {0, 500} :
                          postWithRetryAnswer(World, i, Err(s)).failedAttempts = failedAttempts
          /\ tasks[i].pc = "delay" =>
                postWithRetryDelayed(World, i).failedAttempts = failedAttempts
          /\ tasks[i].pc = "verify" =>
                \A r \in GetResponses :
                    LET w2 == postWithRetryVerified(World, i, r)
                    IN /\ w2.failedAttempts = failedAttempts
                       /\ w2.tasks[i].out = "limited"
                       /\ Settle(w2, i).failedAttempts = failedAttempts
    /\ (ev.task.pc = "done" /\ ev.task.out = "limited") => ev.task.incs = 0

\* with one failure counted, a call has just ended on a 403/429 that came
\* after two transient failures, and the counter is still 1
C38_Witness ==
    /\ failedAttempts = 1
    /\ ev.task.pc = "done" /\ ev.task.out = "limited"
    /\ ev.task.transients = RetryAttempts - 1
    /\ ev.task.posts = RetryAttempts

\* answers whose body says success: false, with and without tier data
RefusedAnswers == {Ok(FALSE, d) : d \in SyncProbes \cup {Undef}}

\* C39: a POST that is answered, with a body saying success: false, ends the
\* call at once with success=true (the body under data) and failedAttempts 0;
\* nothing else changes: no synchronisation (tier, interval, timers and the
\* other calls are what they were, whatever tier data the body carries) and
\* no retry.
C39_ResolvedPostIsSuccess ==
    \A i \in DOMAIN tasks :
        tasks[i].pc = "post" =>
            \A r \in RefusedAnswers :
                /\ postWithRetryAnswer(World, i, r)
                      = [World EXCEPT !.failedAttempts = 0,
                                      !.tasks[i].pc = "done", !.tasks[i].out = "success"]
                /\ postWithRetryResult(r).success
                /\ ~postWithRetryResult(r).data.success

\* with one failure counted and a tier other than "business" stored, a
\* report's POST is answered success: false with the business tier in the body:
\* the counter is reset and the tier kept
C39_Witness ==
    /\ failedAttempts = 1
    /\ currentTier # Str("business")
    /\ isRunning
    /\ \E i \in DOMAIN tasks :
          /\ tasks[i].pc = "post" /\ tasks[i].url = "stats"
          /\ LET w2 == postWithRetryAnswer(World, i, Ok(FALSE, TierNested("business", Num(10))))
             IN /\ w2.failedAttempts = 0
                /\ w2.currentTier = currentTier
                /\ w2.timers = timers
                /\ w2.tasks[i].out = "success"

\* the start sequences in progress
OnReadyCalls == {i \in DOMAIN tasks : tasks[i].origin = "onReady"}

\* C40: the readiness of the host starts at most one start sequence (one
\* verification, one initial report, one arming of the timer), whatever
\* start() and stop() calls came before it.
C40_ReadinessStartsOneSequence ==
    [][(~clientReady /\ clientReady') => Cardinality(OnReadyCalls') <= 1]_vars

====
